---- MODULE Spec2Model ----
(***************************************************************************)
(* Model of the Enigma voice-assistant backend (convex/voiceAssistant.ts)  *)
(* and of the tables of its schema: the seeded rule tables, the sentiment  *)
(* scorer, the intent classifier, the reply ladder of generateResponse,    *)
(* the saveMessage mutation and the processVoiceInput action that chains   *)
(* them.  Convex runs every query and mutation as one serializable         *)
(* transaction, so each of them is one atomic step here; an action runs    *)
(* as a sequence of such steps, one per awaited call.                      *)
(***************************************************************************)
EXTENDS Integers, Sequences, FiniteSets, TLC

(***************************************************************************)
(* Bounds of the model.                                                    *)
(***************************************************************************)
\* number of processVoiceInput calls in one behaviour
MaxReq == 2
\* the last millisecond at which the clock still advances (it starts at 1)
MaxClock == 1
\* number of direct client calls of the public saveMessage mutation
MaxDirect == 1
\* the most initializeDefaults calls (one per mounting client)
MaxSeed == 2
\* the most rules of an intents table other than the seeded one
MaxRules == 2

(***************************************************************************)
(* Values standing for JavaScript's absent values.                         *)
(***************************************************************************)
\* an optional field that is not set / a query that found no document
Absent == "<absent>"
\* what data.choices[0].message.content is when the body carries no string
Undefined == "<undefined>"
\* getAuthUserId(ctx) when no identity is resolvable
NoUser == "<null>"

(***************************************************************************)
(* Strings.  TLC has no operators on the characters of a string, so every  *)
(* string literal of the program and every sample utterance is listed      *)
(* with its character sequence; includes() and toLowerCase() work on the   *)
(* characters.                                                             *)
(***************************************************************************)
Chars ==
       ("hello" :> <<"h", "e", "l", "l", "o">>)
    @@ ("hi" :> <<"h", "i">>)
    @@ ("hey" :> <<"h", "e", "y">>)
    @@ ("good morning" :> <<"g", "o", "o", "d", " ", "m", "o", "r", "n", "i", "n", "g">>)
    @@ ("good afternoon" :> <<"g", "o", "o", "d", " ", "a", "f", "t", "e", "r", "n", "o", "o", "n">>)
    @@ ("good evening" :> <<"g", "o", "o", "d", " ", "e", "v", "e", "n", "i", "n", "g">>)
    @@ ("weather" :> <<"w", "e", "a", "t", "h", "e", "r">>)
    @@ ("temperature" :> <<"t", "e", "m", "p", "e", "r", "a", "t", "u", "r", "e">>)
    @@ ("forecast" :> <<"f", "o", "r", "e", "c", "a", "s", "t">>)
    @@ ("rain" :> <<"r", "a", "i", "n">>)
    @@ ("sunny" :> <<"s", "u", "n", "n", "y">>)
    @@ ("cloudy" :> <<"c", "l", "o", "u", "d", "y">>)
    @@ ("in" :> <<"i", "n">>)
    @@ ("at" :> <<"a", "t">>)
    @@ ("for" :> <<"f", "o", "r">>)
    @@ ("city" :> <<"c", "i", "t", "y">>)
    @@ ("town" :> <<"t", "o", "w", "n">>)
    @@ ("play music" :> <<"p", "l", "a", "y", " ", "m", "u", "s", "i", "c">>)
    @@ ("song" :> <<"s", "o", "n", "g">>)
    @@ ("artist" :> <<"a", "r", "t", "i", "s", "t">>)
    @@ ("album" :> <<"a", "l", "b", "u", "m">>)
    @@ ("playlist" :> <<"p", "l", "a", "y", "l", "i", "s", "t">>)
    @@ ("tune" :> <<"t", "u", "n", "e">>)
    @@ ("rock" :> <<"r", "o", "c", "k">>)
    @@ ("pop" :> <<"p", "o", "p">>)
    @@ ("jazz" :> <<"j", "a", "z", "z">>)
    @@ ("classical" :> <<"c", "l", "a", "s", "s", "i", "c", "a", "l">>)
    @@ ("hip hop" :> <<"h", "i", "p", " ", "h", "o", "p">>)
    @@ ("electronic" :> <<"e", "l", "e", "c", "t", "r", "o", "n", "i", "c">>)
    @@ ("by" :> <<"b", "y">>)
    @@ ("from" :> <<"f", "r", "o", "m">>)
    @@ ("remind me" :> <<"r", "e", "m", "i", "n", "d", " ", "m", "e">>)
    @@ ("reminder" :> <<"r", "e", "m", "i", "n", "d", "e", "r">>)
    @@ ("don't forget" :> <<"d", "o", "n", "'", "t", " ", "f", "o", "r", "g", "e", "t">>)
    @@ ("schedule" :> <<"s", "c", "h", "e", "d", "u", "l", "e">>)
    @@ ("appointment" :> <<"a", "p", "p", "o", "i", "n", "t", "m", "e", "n", "t">>)
    @@ ("tomorrow" :> <<"t", "o", "m", "o", "r", "r", "o", "w">>)
    @@ ("today" :> <<"t", "o", "d", "a", "y">>)
    @@ ("next week" :> <<"n", "e", "x", "t", " ", "w", "e", "e", "k">>)
    @@ ("minutes" :> <<"m", "i", "n", "u", "t", "e", "s">>)
    @@ ("hours" :> <<"h", "o", "u", "r", "s">>)
    @@ ("sad" :> <<"s", "a", "d">>)
    @@ ("depressed" :> <<"d", "e", "p", "r", "e", "s", "s", "e", "d">>)
    @@ ("anxious" :> <<"a", "n", "x", "i", "o", "u", "s">>)
    @@ ("worried" :> <<"w", "o", "r", "r", "i", "e", "d">>)
    @@ ("stressed" :> <<"s", "t", "r", "e", "s", "s", "e", "d">>)
    @@ ("upset" :> <<"u", "p", "s", "e", "t">>)
    @@ ("what" :> <<"w", "h", "a", "t">>)
    @@ ("how" :> <<"h", "o", "w">>)
    @@ ("when" :> <<"w", "h", "e", "n">>)
    @@ ("where" :> <<"w", "h", "e", "r", "e">>)
    @@ ("why" :> <<"w", "h", "y">>)
    @@ ("who" :> <<"w", "h", "o">>)
    @@ ("tell me" :> <<"t", "e", "l", "l", " ", "m", "e">>)
    @@ ("explain" :> <<"e", "x", "p", "l", "a", "i", "n">>)
    @@ ("define" :> <<"d", "e", "f", "i", "n", "e">>)
    @@ ("happy" :> <<"h", "a", "p", "p", "y">>)
    @@ ("joy" :> <<"j", "o", "y">>)
    @@ ("excited" :> <<"e", "x", "c", "i", "t", "e", "d">>)
    @@ ("great" :> <<"g", "r", "e", "a", "t">>)
    @@ ("awesome" :> <<"a", "w", "e", "s", "o", "m", "e">>)
    @@ ("wonderful" :> <<"w", "o", "n", "d", "e", "r", "f", "u", "l">>)
    @@ ("fantastic" :> <<"f", "a", "n", "t", "a", "s", "t", "i", "c">>)
    @@ ("amazing" :> <<"a", "m", "a", "z", "i", "n", "g">>)
    @@ ("love" :> <<"l", "o", "v", "e">>)
    @@ ("perfect" :> <<"p", "e", "r", "f", "e", "c", "t">>)
    @@ ("down" :> <<"d", "o", "w", "n">>)
    @@ ("unhappy" :> <<"u", "n", "h", "a", "p", "p", "y">>)
    @@ ("miserable" :> <<"m", "i", "s", "e", "r", "a", "b", "l", "e">>)
    @@ ("terrible" :> <<"t", "e", "r", "r", "i", "b", "l", "e">>)
    @@ ("awful" :> <<"a", "w", "f", "u", "l">>)
    @@ ("disappointed" :> <<"d", "i", "s", "a", "p", "p", "o", "i", "n", "t", "e", "d">>)
    @@ ("hurt" :> <<"h", "u", "r", "t">>)
    @@ ("cry" :> <<"c", "r", "y">>)
    @@ ("angry" :> <<"a", "n", "g", "r", "y">>)
    @@ ("mad" :> <<"m", "a", "d">>)
    @@ ("furious" :> <<"f", "u", "r", "i", "o", "u", "s">>)
    @@ ("annoyed" :> <<"a", "n", "n", "o", "y", "e", "d">>)
    @@ ("irritated" :> <<"i", "r", "r", "i", "t", "a", "t", "e", "d">>)
    @@ ("frustrated" :> <<"f", "r", "u", "s", "t", "r", "a", "t", "e", "d">>)
    @@ ("hate" :> <<"h", "a", "t", "e">>)
    @@ ("disgusted" :> <<"d", "i", "s", "g", "u", "s", "t", "e", "d">>)
    @@ ("outraged" :> <<"o", "u", "t", "r", "a", "g", "e", "d">>)
    @@ ("scared" :> <<"s", "c", "a", "r", "e", "d">>)
    @@ ("afraid" :> <<"a", "f", "r", "a", "i", "d">>)
    @@ ("terrified" :> <<"t", "e", "r", "r", "i", "f", "i", "e", "d">>)
    @@ ("nervous" :> <<"n", "e", "r", "v", "o", "u", "s">>)
    @@ ("panic" :> <<"p", "a", "n", "i", "c">>)
    @@ ("frightened" :> <<"f", "r", "i", "g", "h", "t", "e", "n", "e", "d">>)
    @@ ("surprised" :> <<"s", "u", "r", "p", "r", "i", "s", "e", "d">>)
    @@ ("shocked" :> <<"s", "h", "o", "c", "k", "e", "d">>)
    @@ ("amazed" :> <<"a", "m", "a", "z", "e", "d">>)
    @@ ("astonished" :> <<"a", "s", "t", "o", "n", "i", "s", "h", "e", "d">>)
    @@ ("wow" :> <<"w", "o", "w">>)
    @@ ("incredible" :> <<"i", "n", "c", "r", "e", "d", "i", "b", "l", "e">>)
    @@ ("unbelievable" :> <<"u", "n", "b", "e", "l", "i", "e", "v", "a", "b", "l", "e">>)
    @@ ("okay" :> <<"o", "k", "a", "y">>)
    @@ ("fine" :> <<"f", "i", "n", "e">>)
    @@ ("normal" :> <<"n", "o", "r", "m", "a", "l">>)
    @@ ("regular" :> <<"r", "e", "g", "u", "l", "a", "r">>)
    @@ ("standard" :> <<"s", "t", "a", "n", "d", "a", "r", "d">>)
    @@ ("typical" :> <<"t", "y", "p", "i", "c", "a", "l">>)
    @@ ("usual" :> <<"u", "s", "u", "a", "l">>)
    @@ ("very" :> <<"v", "e", "r", "y">>)
    @@ ("extremely" :> <<"e", "x", "t", "r", "e", "m", "e", "l", "y">>)
    @@ ("really" :> <<"r", "e", "a", "l", "l", "y">>)
    @@ ("quite" :> <<"q", "u", "i", "t", "e">>)
    @@ ("somewhat" :> <<"s", "o", "m", "e", "w", "h", "a", "t">>)
    @@ ("slightly" :> <<"s", "l", "i", "g", "h", "t", "l", "y">>)
    @@ ("Who are you" :> <<"W", "h", "o", " ", "a", "r", "e", " ", "y", "o", "u">>)
    @@ ("sad depressed anxious worried" :> <<"s", "a", "d", " ", "d", "e", "p", "r", "e", "s", "s", "e", "d", " ", "a", "n", "x", "i", "o", "u", "s", " ", "w", "o", "r", "r", "i", "e", "d">>)
    @@ ("who what when where why" :> <<"w", "h", "o", " ", "w", "h", "a", "t", " ", "w", "h", "e", "n", " ", "w", "h", "e", "r", "e", " ", "w", "h", "y">>)
    @@ ("very slightly" :> <<"v", "e", "r", "y", " ", "s", "l", "i", "g", "h", "t", "l", "y">>)
    @@ ("very sad" :> <<"v", "e", "r", "y", " ", "s", "a", "d">>)
    @@ ("happy sad" :> <<"h", "a", "p", "p", "y", " ", "s", "a", "d">>)
    @@ ("slightly sad" :> <<"s", "l", "i", "g", "h", "t", "l", "y", " ", "s", "a", "d">>)
    @@ ("somewhat happy" :> <<"s", "o", "m", "e", "w", "h", "a", "t", " ", "h", "a", "p", "p", "y">>)
    @@ ("very extremely sad" :> <<"v", "e", "r", "y", " ", "e", "x", "t", "r", "e", "m", "e", "l", "y", " ", "s", "a", "d">>)
    @@ ("wow great" :> <<"w", "o", "w", " ", "g", "r", "e", "a", "t">>)
    @@ (" " :> <<" ">>)
    @@ ("What's the weather like in London?" :> <<"W", "h", "a", "t", "'", "s", " ", "t", "h", "e", " ", "w", "e", "a", "t", "h", "e", "r", " ", "l", "i", "k", "e", " ", "i", "n", " ", "L", "o", "n", "d", "o", "n", "?">>)
    @@ ("I'm feeling a bit down today" :> <<"I", "'", "m", " ", "f", "e", "e", "l", "i", "n", "g", " ", "a", " ", "b", "i", "t", " ", "d", "o", "w", "n", " ", "t", "o", "d", "a", "y">>)
    @@ ("Tell me a fun fact about space" :> <<"T", "e", "l", "l", " ", "m", "e", " ", "a", " ", "f", "u", "n", " ", "f", "a", "c", "t", " ", "a", "b", "o", "u", "t", " ", "s", "p", "a", "c", "e">>)
    @@ ("" :> <<>>)

\* the utterances of the model: those given to processVoiceInput, those a client
\* passes to saveMessage itself, those given to generateResponse called alone, and
\* those given to detectIntent and to analyzeSentiment called alone
Texts == {"Who are you", "sad depressed anxious worried"}
DirectTexts == {"hi"}
GenTexts == {"hi", "Who are you", "sad depressed anxious worried", "who what when where why"}
DetectTexts ==
    {"hello", "hi", "Who are you", "who what when where why", "sad depressed anxious worried"}
SentimentTexts ==
    {"hi", "very slightly", "very sad", "happy sad", "slightly sad", "somewhat happy",
     "very extremely sad", "wow great", "sad depressed anxious worried"}
AllTexts == Texts \cup DirectTexts \cup GenTexts \cup DetectTexts \cup SentimentTexts

UpperToLower ==
       ("A" :> "a") @@ ("B" :> "b") @@ ("C" :> "c") @@ ("D" :> "d") @@ ("E" :> "e")
    @@ ("F" :> "f") @@ ("G" :> "g") @@ ("H" :> "h") @@ ("I" :> "i") @@ ("J" :> "j")
    @@ ("K" :> "k") @@ ("L" :> "l") @@ ("M" :> "m") @@ ("N" :> "n") @@ ("O" :> "o")
    @@ ("P" :> "p") @@ ("Q" :> "q") @@ ("R" :> "r") @@ ("S" :> "s") @@ ("T" :> "t")
    @@ ("U" :> "u") @@ ("V" :> "v") @@ ("W" :> "w") @@ ("X" :> "x") @@ ("Y" :> "y")
    @@ ("Z" :> "z")

LowerChar(c) == IF c \in DOMAIN UpperToLower THEN UpperToLower[c] ELSE c

\* String.prototype.toLowerCase on a character sequence (the concatenation makes
\* TLC hold the result as a tuple instead of re-evaluating the function)
ToLowerCase(cs) == <<>> \o [i \in 1..Len(cs) |-> LowerChar(cs[i])]

\* String.prototype.includes on character sequences: p occurs in cs as a substring
Includes(cs, p) ==
    \E i \in 1..(Len(cs) - Len(p) + 1) : SubSeq(cs, i, i + Len(p) - 1) = p

\* F applied to the value of e: TLC computes e once and binds the value, where
\* a LET would compute e again at every use
WithValue(F(_), e) == CHOOSE y \in {F(x) : x \in {e}} : TRUE

(***************************************************************************)
(* Numbers.  The program computes in IEEE doubles; the model computes the  *)
(* same quotients exactly, as fractions <<numerator, denominator>> in      *)
(* lowest terms with a positive denominator.                               *)
(***************************************************************************)
RECURSIVE Gcd(_, _)
Gcd(a, b) == IF b = 0 THEN a ELSE Gcd(b, a % b)

Abs(n) == IF n < 0 THEN -n ELSE n

Frac(n, d) ==
    LET g == Gcd(Abs(n), d) IN <<n \div g, d \div g>>

FAdd(x, y) == Frac(x[1] * y[2] + y[1] * x[2], x[2] * y[2])
FSub(x, y) == Frac(x[1] * y[2] - y[1] * x[2], x[2] * y[2])
FMul(x, y) == Frac(x[1] * y[1], x[2] * y[2])
FDivInt(x, n) == Frac(x[1], x[2] * n)
FLess(x, y) == x[1] * y[2] < y[1] * x[2]
FLeq(x, y) == x[1] * y[2] <= y[1] * x[2]
FMax(x, y) == IF FLess(x, y) THEN y ELSE x
FMin(x, y) == IF FLess(y, x) THEN y ELSE x
FZero == <<0, 1>>
FOne == <<1, 1>>

(***************************************************************************)
(* The rows initializeDefaults seeds.                                      *)
(***************************************************************************)
defaultIntents ==
    << [category |-> "greeting",
        patterns |-> <<"hello", "hi", "hey", "good morning", "good afternoon", "good evening">>,
        entities |-> <<>>,
        requiredConfidence |-> <<7, 10>>],
       [category |-> "weather",
        patterns |-> <<"weather", "temperature", "forecast", "rain", "sunny", "cloudy">>,
        entities |-> << [type |-> "location", patterns |-> <<"in", "at", "for", "city", "town">>] >>,
        requiredConfidence |-> <<4, 5>>],
       [category |-> "music",
        patterns |-> <<"play music", "song", "artist", "album", "playlist", "tune">>,
        entities |-> << [type |-> "genre",
                         patterns |-> <<"rock", "pop", "jazz", "classical", "hip hop", "electronic">>],
                        [type |-> "artist", patterns |-> <<"by", "from", "artist">>] >>,
        requiredConfidence |-> <<3, 4>>],
       [category |-> "reminder",
        patterns |-> <<"remind me", "reminder", "don't forget", "schedule", "appointment">>,
        entities |-> << [type |-> "time",
                         patterns |-> <<"at", "in", "tomorrow", "today", "next week", "minutes", "hours">>] >>,
        requiredConfidence |-> <<4, 5>>],
       [category |-> "emotion_support",
        patterns |-> <<"sad", "depressed", "anxious", "worried", "stressed", "upset">>,
        entities |-> <<>>,
        requiredConfidence |-> <<3, 5>>],
       [category |-> "question",
        patterns |-> <<"what", "how", "when", "where", "why", "who", "tell me", "explain", "define">>,
        entities |-> <<>>,
        requiredConfidence |-> <<1, 2>>] >>

defaultSentimentModel ==
    [name |-> "default",
     emotionKeywords |->
        [happy |-> <<"happy", "joy", "excited", "great", "awesome", "wonderful", "fantastic",
                     "amazing", "love", "perfect">>,
         sad |-> <<"sad", "depressed", "down", "unhappy", "miserable", "terrible", "awful",
                   "disappointed", "hurt", "cry">>,
         angry |-> <<"angry", "mad", "furious", "annoyed", "irritated", "frustrated", "hate",
                     "disgusted", "outraged">>,
         fear |-> <<"scared", "afraid", "terrified", "worried", "anxious", "nervous", "panic",
                    "frightened">>,
         surprise |-> <<"surprised", "shocked", "amazed", "astonished", "wow", "incredible",
                        "unbelievable">>,
         neutral |-> <<"okay", "fine", "normal", "regular", "standard", "typical", "usual">>],
     intensityModifiers |->
        << [word |-> "very", multiplier |-> <<3, 2>>],
           [word |-> "extremely", multiplier |-> <<2, 1>>],
           [word |-> "really", multiplier |-> <<13, 10>>],
           [word |-> "quite", multiplier |-> <<6, 5>>],
           [word |-> "somewhat", multiplier |-> <<4, 5>>],
           [word |-> "slightly", multiplier |-> <<3, 5>>] >>]

(***************************************************************************)
(* analyzeSentiment: the scoring of a text against a sentiment model.      *)
(***************************************************************************)
\* the keys of emotionScores, in the order Object.entries lists them
EmotionLabels == <<"happy", "sad", "angry", "fear", "surprise", "neutral">>

\* the loop over intensityModifiers: m is intensityMultiplier before modifier i
RECURSIVE IntensityLoop(_, _, _, _)
IntensityLoop(text, modifiers, i, m) ==
    IF i > Len(modifiers) THEN m
    ELSE IntensityLoop(text, modifiers, i + 1,
            IF Includes(text, Chars[modifiers[i].word])
            THEN FMax(m, modifiers[i].multiplier)
            ELSE m)

IntensityMultiplier(text, model) == IntensityLoop(text, model.intensityModifiers, 1, FOne)

\* how many keywords of one emotion occur in the text
KeywordMatches(text, keywords) ==
    Cardinality({k \in 1..Len(keywords) : Includes(text, Chars[keywords[k]])})

\* the reduce over Object.entries(emotionScores): a is the entry kept so far
RECURSIVE DominantLoop(_, _, _)
DominantLoop(scores, i, a) ==
    IF i > Len(EmotionLabels) THEN a
    ELSE DominantLoop(scores, i + 1,
            IF FLess(scores[EmotionLabels[i]], scores[a]) THEN a ELSE EmotionLabels[i])

DominantEmotion(scores) == DominantLoop(scores, 2, EmotionLabels[1])

\* NormalizedScores without the neutral score of 1.0 when nothing matched
NormalizedScoresNoNeutralDefault(hits, mult) ==
    LET totalMatches == hits.happy + hits.sad + hits.angry + hits.fear + hits.surprise
                        + hits.neutral
        Score(n) == FDivInt(FMul(mult, <<n, 1>>), IF totalMatches > 0 THEN totalMatches ELSE 1)
    IN  [happy |-> Score(hits.happy), sad |-> Score(hits.sad),
         angry |-> Score(hits.angry), fear |-> Score(hits.fear),
         surprise |-> Score(hits.surprise), neutral |-> Score(hits.neutral)]

\* emotionScores after the scoring loop (hits[e] keywords of e matched, each adding
\* mult) and the normalisation
NormalizedScores(hits, mult) ==
    LET totalMatches == hits.happy + hits.sad + hits.angry + hits.fear + hits.surprise
                        + hits.neutral
        Score(n) == FDivInt(FMul(mult, <<n, 1>>), totalMatches)
    IN  IF totalMatches > 0
        THEN [happy |-> Score(hits.happy), sad |-> Score(hits.sad),
              angry |-> Score(hits.angry), fear |-> Score(hits.fear),
              surprise |-> Score(hits.surprise), neutral |-> Score(hits.neutral)]
        ELSE [happy |-> FZero, sad |-> FZero, angry |-> FZero, fear |-> FZero,
              surprise |-> FZero, neutral |-> FOne]

EmotionScores(text, model) ==
    LET k == model.emotionKeywords
        Hits == [happy |-> KeywordMatches(text, k.happy), sad |-> KeywordMatches(text, k.sad),
                 angry |-> KeywordMatches(text, k.angry), fear |-> KeywordMatches(text, k.fear),
                 surprise |-> KeywordMatches(text, k.surprise),
                 neutral |-> KeywordMatches(text, k.neutral)]
        Normalize(hits) ==
            WithValue(LAMBDA mult : NormalizedScores(hits, mult),
                      IntensityMultiplier(text, model))
    IN  WithValue(Normalize, Hits)

\* SentimentReading without the clamps of the returned object
SentimentReadingUnclamped(s) ==
    LET Reading(dominantEmotion) ==
            [emotion |-> dominantEmotion,
             confidence |-> s[dominantEmotion],
             valence |-> FSub(FAdd(s.happy, s.surprise), FAdd(FAdd(s.sad, s.angry), s.fear)),
             arousal |-> FAdd(FAdd(FAdd(s.angry, s.fear), s.surprise),
                              FMul(s.happy, <<1, 2>>))]
    IN  WithValue(Reading, DominantEmotion(s))

\* the object the handler returns, from the normalised emotionScores
SentimentReading(s) ==
    LET Reading(dominantEmotion) ==
            LET confidence == s[dominantEmotion]
                valence == FSub(FAdd(s.happy, s.surprise), FAdd(FAdd(s.sad, s.angry), s.fear))
                arousal == FAdd(FAdd(FAdd(s.angry, s.fear), s.surprise),
                                FMul(s.happy, <<1, 2>>))
            IN  [emotion |-> dominantEmotion,
                 confidence |-> FMin(confidence, FOne),
                 valence |-> FMax(<<-1, 1>>, FMin(FOne, valence)),
                 arousal |-> FMax(FZero, FMin(FOne, arousal))]
    IN  WithValue(Reading, DominantEmotion(s))

\* the handler's result for args.text, given the stored model
AnalyzeSentiment(rawText, model) ==
    LET Scored(text) == WithValue(SentimentReading, EmotionScores(text, model))
    IN  WithValue(Scored, ToLowerCase(Chars[rawText]))

\* AnalyzeSentiment against the seeded model for the utterances of the model,
\* computed once (@@ makes TLC hold the function as a table)
DefaultSentiments ==
    [t \in AllTexts |-> AnalyzeSentiment(t, defaultSentimentModel)] @@ <<>>

\* the result of the analyzeSentiment action for a text and the model it read
SentimentOf(rawText, model) ==
    IF model = defaultSentimentModel
    THEN DefaultSentiments[rawText]
    ELSE AnalyzeSentiment(rawText, model)

(***************************************************************************)
(* detectIntent: the classification of a text against the stored rules.    *)
(***************************************************************************)
\* the entities pushed for one extractor, pattern by pattern
RECURSIVE EntityPatternLoop(_, _, _)
EntityPatternLoop(text, entityType, j) ==
    IF j > Len(entityType.patterns) THEN <<>>
    ELSE (IF Includes(text, ToLowerCase(Chars[entityType.patterns[j]]))
          THEN << [type |-> entityType.type, value |-> entityType.patterns[j],
                   confidence |-> <<4, 5>>] >>
          ELSE <<>>)
         \o EntityPatternLoop(text, entityType, j + 1)

RECURSIVE ExtractEntities(_, _, _)
ExtractEntities(text, entityTypes, i) ==
    IF i > Len(entityTypes) THEN <<>>
    ELSE EntityPatternLoop(text, entityTypes[i], 1) \o ExtractEntities(text, entityTypes, i + 1)

\* matches of one rule: its patterns that occur in the text
PatternMatches(text, intent) ==
    Cardinality({k \in 1..Len(intent.patterns) :
                    Includes(text, ToLowerCase(Chars[intent.patterns[k]]))})

UnknownIntent == [category |-> "unknown", confidence |-> FZero, entities |-> <<>>]

\* IntentStep without the comparison with the rule's requiredConfidence
IntentStepNoThreshold(text, intent, bestMatch) ==
    LET Decide(matches) ==
            LET confidence == Frac(matches, Len(intent.patterns))
            IN  IF matches > 0
                   /\ FLess(bestMatch.confidence, confidence)
                THEN [category |-> intent.category, confidence |-> confidence,
                      entities |-> ExtractEntities(text, intent.entities, 1)]
                ELSE bestMatch
    IN  WithValue(Decide, PatternMatches(text, intent))

\* IntentStep replacing bestMatch also when the confidence is equal
IntentStepLaterWinsTies(text, intent, bestMatch) ==
    LET Decide(matches) ==
            LET confidence == Frac(matches, Len(intent.patterns))
            IN  IF matches > 0
                   /\ FLeq(intent.requiredConfidence, confidence)
                   /\ FLeq(bestMatch.confidence, confidence)
                THEN [category |-> intent.category, confidence |-> confidence,
                      entities |-> ExtractEntities(text, intent.entities, 1)]
                ELSE bestMatch
    IN  WithValue(Decide, PatternMatches(text, intent))

\* IntentStep comparing the number of matches, not the confidence, with the
\* rule's requiredConfidence
IntentStepRawScore(text, intent, bestMatch) ==
    LET Decide(matches) ==
            LET confidence == Frac(matches, Len(intent.patterns))
            IN  IF matches > 0
                   /\ FLeq(intent.requiredConfidence, <<matches, 1>>)
                   /\ FLess(bestMatch.confidence, confidence)
                THEN [category |-> intent.category, confidence |-> confidence,
                      entities |-> ExtractEntities(text, intent.entities, 1)]
                ELSE bestMatch
    IN  WithValue(Decide, PatternMatches(text, intent))

\* IntentStep adding the new rule's entities to those of the displaced match
IntentStepKeepingEntities(text, intent, bestMatch) ==
    LET Decide(matches) ==
            LET confidence == Frac(matches, Len(intent.patterns))
            IN  IF matches > 0
                   /\ FLeq(intent.requiredConfidence, confidence)
                   /\ FLess(bestMatch.confidence, confidence)
                THEN [category |-> intent.category, confidence |-> confidence,
                      entities |-> bestMatch.entities
                                      \o ExtractEntities(text, intent.entities, 1)]
                ELSE bestMatch
    IN  WithValue(Decide, PatternMatches(text, intent))

\* one iteration of the loop over the rules: bestMatch after rule `intent`
IntentStep(text, intent, bestMatch) ==
    LET Decide(matches) ==
            LET confidence == Frac(matches, Len(intent.patterns))
            IN  IF matches > 0
                   /\ FLeq(intent.requiredConfidence, confidence)
                   /\ FLess(bestMatch.confidence, confidence)
                THEN [category |-> intent.category, confidence |-> confidence,
                      entities |-> ExtractEntities(text, intent.entities, 1)]
                ELSE bestMatch
    IN  WithValue(Decide, PatternMatches(text, intent))

RECURSIVE IntentLoop(_, _, _, _)
IntentLoop(text, rules, i, bestMatch) ==
    IF i > Len(rules) THEN bestMatch
    ELSE WithValue(LAMBDA next : IntentLoop(text, rules, i + 1, next),
                   IntentStep(text, rules[i], bestMatch))

\* the handler's result for args.text, given the stored rules in stored order
DetectIntent(rawText, rules) ==
    WithValue(LAMBDA text : IntentLoop(text, rules, 1, UnknownIntent),
              ToLowerCase(Chars[rawText]))

\* DetectIntent against the seeded rules for the utterances of the model,
\* computed once
DefaultIntentReadings ==
    [t \in AllTexts |-> DetectIntent(t, defaultIntents)] @@ <<>>

\* the result of the detectIntent action for a text and the rules it read
IntentOf(rawText, rules) ==
    IF rules = defaultIntents THEN DefaultIntentReadings[rawText]
    ELSE DetectIntent(rawText, rules)

(***************************************************************************)
(* The remote chat-completion calls.  What a fetch does is the network's   *)
(* choice; the program distinguishes these outcomes:                       *)
(*   ok_text       2xx, data.choices[0].message.content is a string        *)
(*   ok_nocontent  2xx, data.choices[0].message exists, content is not a   *)
(*                 string (null or missing)                                *)
(*   ok_malformed  2xx, the body is not JSON or has no choices[0].message, *)
(*                 so response.json() or the property access throws        *)
(*   non2xx        response.ok is false                                    *)
(*   neterr        fetch rejects                                           *)
(***************************************************************************)
Outcomes == {"ok_text", "ok_nocontent", "ok_malformed", "non2xx", "neterr"}

\* the outcomes of the three fetches one generateResponse call can make
RemoteOutcomes == [qa : Outcomes, primary : Outcomes, secondary : Outcomes]

\* the reply texts of the remote services, one per call site
QaAnswer == "text answered by openrouter to answerQuestion"
PrimaryReply == "text replied by openrouter to generateResponse"
SecondaryReply == "text replied by the Convex OpenAI endpoint to generateResponse"
RemoteTexts == {QaAnswer, PrimaryReply, SecondaryReply}

\* process.env as a call finds it: which provider keys are configured
Envs == [OPENROUTER_API_KEY : BOOLEAN, CONVEX_OPENAI_API_KEY : BOOLEAN]

\* answerQuestion: the result of the action, and the fetches it made
AnswerQuestion(environment, outcome) ==
    IF ~environment.OPENROUTER_API_KEY
    THEN [threw |-> TRUE, value |-> Undefined, trace |-> <<>>]
    ELSE CASE outcome = "ok_text" ->
                [threw |-> FALSE, value |-> QaAnswer, trace |-> <<"fetch_qa">>]
           [] outcome = "ok_nocontent" ->
                [threw |-> FALSE, value |-> Undefined, trace |-> <<"fetch_qa">>]
           [] OTHER ->
                [threw |-> TRUE, value |-> Undefined, trace |-> <<"fetch_qa">>]

\* the words whose presence in the message selects the Q&A path
QuestionWords == <<"what", "how", "when", "where", "why", "who">>

\* userMessage.toLowerCase().includes(w) for one of the six words
HasQuestionWord(userMessage) ==
    \E text \in {ToLowerCase(Chars[userMessage])} :
        \E w \in 1..Len(QuestionWords) : Includes(text, Chars[QuestionWords[w]])

\* the utterances of the model for which HasQuestionWord holds, computed once
QuestionWordTexts == UNION {IF HasQuestionWord(t) THEN {t} ELSE {} : t \in AllTexts}

\* IsQuestionMode looking at the intent only
IsQuestionModeIntentOnly(userMessage, intent) == intent.category = "question"

\* the condition of the first if of generateResponse
IsQuestionMode(userMessage, intent) ==
    \/ intent.category = "question"
    \/ userMessage \in QuestionWordTexts

\* one provider of the try block: what the code does after a fetch with this outcome
\*   "return"   the function returns value
\*   "throw"    control goes to the catch block
\*   "continue" control goes on to the next statement of the try block
ProviderStep(outcome, text) ==
    CASE outcome = "ok_text" -> [do |-> "return", value |-> text]
      [] outcome = "ok_nocontent" -> [do |-> "return", value |-> Undefined]
      [] outcome = "non2xx" -> [do |-> "continue", value |-> Undefined]
      [] OTHER -> [do |-> "throw", value |-> Undefined]

\* the try block of generateResponse: OpenRouter first, then Convex OpenAI
ContextReply(environment, primary, secondary) ==
    LET p == ProviderStep(primary, PrimaryReply)
        s == ProviderStep(secondary, SecondaryReply)
        afterPrimary == IF environment.OPENROUTER_API_KEY THEN <<"fetch_primary">> ELSE <<>>
    IN  IF environment.OPENROUTER_API_KEY /\ p.do # "continue"
        THEN [threw |-> p.do = "throw", value |-> p.value, trace |-> <<"fetch_primary">>]
        ELSE IF environment.CONVEX_OPENAI_API_KEY
             THEN IF s.do # "continue"
                  THEN [threw |-> s.do = "throw", value |-> s.value,
                        trace |-> afterPrimary \o <<"fetch_secondary">>]
                  ELSE [threw |-> TRUE, value |-> Undefined,
                        trace |-> afterPrimary \o <<"fetch_secondary">>]
             ELSE [threw |-> TRUE, value |-> Undefined, trace |-> afterPrimary]

GreetingSad == "Hello there. I can sense you might not be feeling your best today. I'm here if you need someone to talk to."
GreetingDefault == "Hello! It's great to hear from you. How can I help you today?"
EmotionSupportLine == "I understand you're going through a difficult time. While I'm just an AI, I want you to know that your feelings are valid. Is there anything specific I can help you with?"
QuestionLine == "I'd love to help answer your question, but I'm having trouble accessing my knowledge base right now. Could you try asking again in a moment?"
SupportiveDefault == "I'm here to help, and I can sense this might be challenging for you. Let me know what you need."
NeutralDefault == "I'm here to help! What can I do for you?"
FallbackLines ==
    {GreetingSad, GreetingDefault, EmotionSupportLine, QuestionLine, SupportiveDefault,
     NeutralDefault}

\* FallbackResponse choosing the supportive line also at valence -0.3 exactly
FallbackResponseAtMost(sentiment, intent) ==
    IF intent.category = "greeting"
    THEN (IF sentiment.emotion = "sad" THEN GreetingSad ELSE GreetingDefault)
    ELSE IF intent.category = "emotion_support" THEN EmotionSupportLine
    ELSE IF intent.category = "question" THEN QuestionLine
    ELSE IF FLeq(sentiment.valence, <<-3, 10>>) THEN SupportiveDefault
    ELSE NeutralDefault

\* the catch block of generateResponse
FallbackResponse(sentiment, intent) ==
    IF intent.category = "greeting"
    THEN (IF sentiment.emotion = "sad" THEN GreetingSad ELSE GreetingDefault)
    ELSE IF intent.category = "emotion_support" THEN EmotionSupportLine
    ELSE IF intent.category = "question" THEN QuestionLine
    ELSE IF FLess(sentiment.valence, <<-3, 10>>) THEN SupportiveDefault
    ELSE NeutralDefault

\* generateResponse: what the action returns or that it threw, and the calls it
\* made in order ("answerQuestion" is the runAction, fetch_* are the remote calls,
\* "fallback" is the catch block choosing a local line)
GenerateResponse(userMessage, sentiment, intent, conversationHistory, environment, out) ==
    LET questionMode == IsQuestionMode(userMessage, intent)
        qa == AnswerQuestion(environment, out.qa)
        before == IF questionMode THEN <<"answerQuestion">> \o qa.trace ELSE <<>>
        g == ContextReply(environment, out.primary, out.secondary)
    IN  IF questionMode /\ ~qa.threw
        THEN [threw |-> FALSE, response |-> qa.value, trace |-> before]
        ELSE IF ~g.threw
             THEN [threw |-> FALSE, response |-> g.value, trace |-> before \o g.trace]
             ELSE [threw |-> FALSE, response |-> FallbackResponse(sentiment, intent),
                   trace |-> before \o g.trace \o <<"fallback">>]

(***************************************************************************)
(* The conversations table and the saveMessage mutation.                   *)
(* A table is the sequence of its documents in creation order, which is    *)
(* the order an index lists documents with equal keys.                     *)
(***************************************************************************)
\* .withIndex("by_user_and_session", ...).first(): the position of the first
\* conversation of (userId, sessionId), 0 when there is none
FirstConversation(convs, userId, sessionId) ==
    LET S == {i \in 1..Len(convs) :
                convs[i].userId = userId /\ convs[i].sessionId = sessionId}
    IN  IF S = {} THEN 0 ELSE CHOOSE i \in S : \A j \in S : i <= j

\* the handler of getConversation
GetConversation(convs, userId, sessionId) == FirstConversation(convs, userId, sessionId)

\* the two message objects saveMessage builds from its arguments and Date.now()
UserMessage(args, timestamp) ==
    [id |-> <<"user", timestamp>>, type |-> "user", content |-> args.userMessage,
     timestamp |-> timestamp, sentiment |-> args.sentiment, intent |-> args.intent]

\* AssistantMessage with the user message's timestamp instead of timestamp + 1
AssistantMessageSameTimestamp(args, timestamp) ==
    [id |-> <<"assistant", timestamp>>, type |-> "assistant",
     content |-> args.assistantResponse, timestamp |-> timestamp]

AssistantMessage(args, timestamp) ==
    [id |-> <<"assistant", timestamp + 1>>, type |-> "assistant",
     content |-> args.assistantResponse, timestamp |-> timestamp + 1]

\* UpdatedContext writing the category to conversationTopic whatever it is
UpdatedContextOverwritingTopic(context, args) ==
    [context EXCEPT
        !.userMood = args.sentiment.emotion,
        !.lastIntent = args.intent.category,
        !.conversationTopic = args.intent.category]

\* UpdatedContext leaving userMood as stored
UpdatedContextKeepingMood(context, args) ==
    [context EXCEPT
        !.lastIntent = args.intent.category,
        !.conversationTopic =
            IF args.intent.category # "unknown" THEN args.intent.category ELSE @]

\* the context of the patch: the stored context with three fields overwritten
UpdatedContext(context, args) ==
    [context EXCEPT
        !.userMood = args.sentiment.emotion,
        !.lastIntent = args.intent.category,
        !.conversationTopic =
            IF args.intent.category # "unknown" THEN args.intent.category ELSE @]

\* NewContext with another verbosity than "detailed"
NewContextBrief(args) ==
    [userMood |-> args.sentiment.emotion,
     conversationTopic |->
        IF args.intent.category # "unknown" THEN args.intent.category ELSE Absent,
     lastIntent |-> args.intent.category,
     preferences |-> [responseStyle |-> "empathetic", verbosity |-> "brief"]]

\* the context of the insert
NewContext(args) ==
    [userMood |-> args.sentiment.emotion,
     conversationTopic |->
        IF args.intent.category # "unknown" THEN args.intent.category ELSE Absent,
     lastIntent |-> args.intent.category,
     preferences |-> [responseStyle |-> "empathetic", verbosity |-> "detailed"]]

\* SaveMessage pushing the assistant message before the user message
SaveMessageAssistantFirst(convs, args, timestamp) ==
    LET c == FirstConversation(convs, args.userId, args.sessionId)
        pair == <<AssistantMessage(args, timestamp), UserMessage(args, timestamp)>>
    IN  IF c # 0
        THEN [convs EXCEPT ![c] =
                [@ EXCEPT !.messages = convs[c].messages \o pair,
                          !.context = UpdatedContext(convs[c].context, args)]]
        ELSE Append(convs,
                [userId |-> args.userId, sessionId |-> args.sessionId,
                 messages |-> pair, context |-> NewContext(args)])

\* SaveMessage patching messages with the new pair alone, so that the pairs
\* stored before are overwritten
SaveMessageOverwriting(convs, args, timestamp) ==
    LET c == FirstConversation(convs, args.userId, args.sessionId)
        pair == <<UserMessage(args, timestamp), AssistantMessage(args, timestamp)>>
    IN  IF c # 0
        THEN [convs EXCEPT ![c] =
                [@ EXCEPT !.messages = pair,
                          !.context = UpdatedContext(convs[c].context, args)]]
        ELSE Append(convs,
                [userId |-> args.userId, sessionId |-> args.sessionId,
                 messages |-> pair, context |-> NewContext(args)])

\* SaveMessage putting the new pair in front of the stored messages
SaveMessagePrepending(convs, args, timestamp) ==
    LET c == FirstConversation(convs, args.userId, args.sessionId)
        pair == <<UserMessage(args, timestamp), AssistantMessage(args, timestamp)>>
    IN  IF c # 0
        THEN [convs EXCEPT ![c] =
                [@ EXCEPT !.messages = pair \o convs[c].messages,
                          !.context = UpdatedContext(convs[c].context, args)]]
        ELSE Append(convs,
                [userId |-> args.userId, sessionId |-> args.sessionId,
                 messages |-> pair, context |-> NewContext(args)])

\* SaveMessage inserting a conversation without looking for an existing one
SaveMessageAlwaysInserting(convs, args, timestamp) ==
    Append(convs,
        [userId |-> args.userId, sessionId |-> args.sessionId,
         messages |-> <<UserMessage(args, timestamp), AssistantMessage(args, timestamp)>>,
         context |-> NewContext(args)])

\* the handler of saveMessage, one transaction: the table after it
SaveMessage(convs, args, timestamp) ==
    LET c == FirstConversation(convs, args.userId, args.sessionId)
        pair == <<UserMessage(args, timestamp), AssistantMessage(args, timestamp)>>
    IN  IF c # 0
        THEN [convs EXCEPT ![c] =
                [@ EXCEPT !.messages = convs[c].messages \o pair,
                          !.context = UpdatedContext(convs[c].context, args)]]
        ELSE Append(convs,
                [userId |-> args.userId, sessionId |-> args.sessionId,
                 messages |-> pair, context |-> NewContext(args)])

\* conversation?.messages.slice(-10).map(...) || []
ConversationHistory(convs, c) ==
    IF c = 0 THEN <<>>
    ELSE LET ms == convs[c].messages
             from == IF Len(ms) > 10 THEN Len(ms) - 9 ELSE 1
         IN  [i \in 1..(Len(ms) - from + 1) |->
                [type |-> ms[from + i - 1].type, content |-> ms[from + i - 1].content]]

(***************************************************************************)
(* State.                                                                  *)
(***************************************************************************)
VARIABLES
    intents,          \* table intents
    sentimentModels,  \* table sentimentModels
    conversations,    \* table conversations
    now,              \* Date.now()
    requests,         \* the processVoiceInput calls: position and local variables
    directSaves,      \* the (userId, sessionId) of each saveMessage a client called itself
    gen,              \* the generateResponse call a client made itself, and its result
    seedCalls,        \* the number of initializeDefaults calls that have run
    client,           \* the analysis action a client called itself, and its result
    ui                \* the VoiceAssistant component: its state, refs and browser engines

vars ==
    <<intents, sentimentModels, conversations, now, requests, directSaves, gen, seedCalls,
      client, ui>>

\* the identities getAuthUserId can resolve and the session ids
Users == {"u1", "u2"}
Sessions == {"s1", "s2"}

Requests == 1..MaxReq

\* a sentiment / intent local variable before the analysis has returned
PendingSentiment ==
    [emotion |-> Absent, confidence |-> FZero, valence |-> FZero, arousal |-> FZero]
PendingIntent == [category |-> Absent, confidence |-> FZero, entities |-> <<>>]

\* a call that has not been made
IdleRequest ==
    [pc |-> "idle", userId |-> NoUser, text |-> "", sessionId |-> "",
     sentiment |-> PendingSentiment, intent |-> PendingIntent,
     conversationHistory |-> <<>>, responseText |-> Undefined,
     ran |-> {}, error |-> Absent]

NoGen == [called |-> FALSE]
NoCall == [call |-> "none"]
\* no VoiceAssistant component is mounted
NoUi == [mounted |-> FALSE]

Init ==
    /\ intents = <<>>
    /\ sentimentModels = <<>>
    /\ conversations = <<>>
    /\ now = 1
    /\ requests = [r \in Requests |-> IdleRequest]
    /\ directSaves = <<>>
    /\ gen = NoGen
    /\ seedCalls = 0
    /\ client = NoCall
    /\ ui = NoUi

(***************************************************************************)
(* initializeDefaults, one transaction.                                    *)
(***************************************************************************)
\* SeededIntents without the check for an existing intent
SeededIntentsUnchecked(tbl) == tbl \o defaultIntents

\* the tables after the handler: nothing changes when an intent exists
SeededIntents(tbl) == IF Len(tbl) > 0 THEN tbl ELSE tbl \o defaultIntents
SeededModels(tblIntents, tblModels) ==
    IF Len(tblIntents) > 0 THEN tblModels ELSE Append(tblModels, defaultSentimentModel)

InitializeDefaults ==
    /\ seedCalls < MaxSeed
    /\ seedCalls' = seedCalls + 1
    /\ intents' = SeededIntents(intents)
    /\ sentimentModels' = SeededModels(intents, sentimentModels)
    /\ UNCHANGED <<conversations, now, requests, directSaves, gen, client, ui>>

\* the handler of getSentimentModel: the position of the first model named
\* "default", 0 when there is none
GetSentimentModel(tbl) ==
    LET S == {i \in 1..Len(tbl) : tbl[i].name = "default"}
    IN  IF S = {} THEN 0 ELSE CHOOSE i \in S : \A j \in S : i <= j

(***************************************************************************)
(* The clock: Date.now() never decreases.                                  *)
(***************************************************************************)
Tick ==
    /\ now <= MaxClock
    /\ now' = now + 1
    /\ UNCHANGED <<intents, sentimentModels, conversations, requests, directSaves, gen,
                   seedCalls, client, ui>>

(***************************************************************************)
(* processVoiceInput, step by step.  Each step is the code up to the next  *)
(* awaited call; `fault` is the awaited call being rejected by the         *)
(* platform, which the handler does not catch.                             *)
(***************************************************************************)
\* the handler throws: its local variables are gone, the caller gets the error
Fail(r, message, call) ==
    requests' = [requests EXCEPT ![r] =
        [IdleRequest EXCEPT !.pc = "failed", !.error = message,
                            !.ran = requests[r].ran \cup call]]

\* Users and sessions are interchangeable names, and so are the calls: the calls
\* start in the order of their numbers, and the first one is taken to come from
\* u1 (or from nobody) in s1.
CallerOf(r) == IF r = 1 THEN {"u1", NoUser} ELSE Users \cup {NoUser}
SessionOf(r) == IF r = 1 THEN {"s1"} ELSE Sessions

\* StartProcessVoiceInput without the check of the identity
StartProcessVoiceInputUnchecked(r, userId, text, sessionId) ==
    /\ requests[r].pc = "idle"
    /\ \A q \in Requests : q < r => requests[q].pc # "idle"
    /\ requests' = [requests EXCEPT ![r] =
            [@ EXCEPT !.userId = userId, !.text = text, !.sessionId = sessionId,
                      !.pc = "analysis"]]
    /\ UNCHANGED <<intents, sentimentModels, conversations, now, directSaves, gen, seedCalls,
                   client, ui>>

\* getAuthUserId and the check of its result
StartProcessVoiceInput(r, userId, text, sessionId) ==
    /\ requests[r].pc = "idle"
    /\ \A q \in Requests : q < r => requests[q].pc # "idle"
    /\ IF userId = NoUser
       THEN Fail(r, "User not authenticated", {})
       ELSE requests' = [requests EXCEPT ![r] =
                [@ EXCEPT !.userId = userId, !.text = text, !.sessionId = sessionId,
                          !.pc = "analysis"]]
    /\ UNCHANGED <<intents, sentimentModels, conversations, now, directSaves, gen, seedCalls,
                   client, ui>>

\* where the handler is once one branch of Promise.all has returned
AfterAnalysis(sentiment, intent) ==
    IF sentiment.emotion # Absent /\ intent.category # Absent THEN "load" ELSE "analysis"

\* RunAnalyzeSentiment answering a neutral reading when no model is stored
RunAnalyzeSentimentLenient(r) ==
    /\ requests[r].pc = "analysis"
    /\ requests[r].sentiment = PendingSentiment
    /\ LET m == GetSentimentModel(sentimentModels)
           sentiment == IF m = 0
                        THEN [emotion |-> "neutral", confidence |-> FOne,
                              valence |-> FZero, arousal |-> FZero]
                        ELSE SentimentOf(requests[r].text, sentimentModels[m])
       IN  requests' = [requests EXCEPT ![r] =
               [@ EXCEPT !.sentiment = sentiment,
                         !.ran = @ \cup {"analyzeSentiment"},
                         !.pc = AfterAnalysis(sentiment, requests[r].intent)]]
    /\ UNCHANGED <<intents, sentimentModels, conversations, now, directSaves, gen, seedCalls,
                   client, ui>>

\* the analyzeSentiment branch of Promise.all
RunAnalyzeSentiment(r) ==
    /\ requests[r].pc = "analysis"
    /\ requests[r].sentiment = PendingSentiment
    /\ LET m == GetSentimentModel(sentimentModels)
       IN  IF m = 0
           THEN Fail(r, "Sentiment model not found", {"analyzeSentiment"})
           ELSE LET sentiment == SentimentOf(requests[r].text, sentimentModels[m])
                IN  requests' = [requests EXCEPT ![r] =
                        [@ EXCEPT !.sentiment = sentiment,
                                  !.ran = @ \cup {"analyzeSentiment"},
                                  !.pc = AfterAnalysis(sentiment, requests[r].intent)]]
    /\ UNCHANGED <<intents, sentimentModels, conversations, now, directSaves, gen, seedCalls,
                   client, ui>>

\* the detectIntent branch of Promise.all
RunDetectIntent(r, fault) ==
    /\ requests[r].pc = "analysis"
    /\ requests[r].intent = PendingIntent
    /\ IF fault
       THEN Fail(r, "detectIntent failed", {"detectIntent"})
       ELSE LET intent == IntentOf(requests[r].text, intents)
            IN  requests' = [requests EXCEPT ![r] =
                    [@ EXCEPT !.intent = intent,
                              !.ran = @ \cup {"detectIntent"},
                              !.pc = AfterAnalysis(requests[r].sentiment, intent)]]
    /\ UNCHANGED <<intents, sentimentModels, conversations, now, directSaves, gen, seedCalls,
                   client, ui>>

\* runQuery(getConversation) and the history built from it
LoadConversation(r, fault) ==
    /\ requests[r].pc = "load"
    /\ IF fault
       THEN Fail(r, "getConversation failed", {"getConversation"})
       ELSE LET c == GetConversation(conversations, requests[r].userId, requests[r].sessionId)
            IN  requests' = [requests EXCEPT ![r] =
                    [@ EXCEPT !.conversationHistory = ConversationHistory(conversations, c),
                              !.ran = @ \cup {"getConversation"},
                              !.pc = "generate"]]
    /\ UNCHANGED <<intents, sentimentModels, conversations, now, directSaves, gen, seedCalls,
                   client, ui>>

\* what one generateResponse call can do, over the configurations it can find and
\* the outcomes of its fetches
GenerateResponseResults(userMessage, sentiment, intent, conversationHistory) ==
    {GenerateResponse(userMessage, sentiment, intent, conversationHistory, environment, out) :
        environment \in Envs, out \in RemoteOutcomes}

\* runAction(generateResponse)
RunGenerateResponse(r) ==
    /\ requests[r].pc = "generate"
    /\ \E g \in GenerateResponseResults(requests[r].text, requests[r].sentiment,
                                         requests[r].intent, requests[r].conversationHistory) :
          IF g.threw
          THEN Fail(r, "generateResponse failed", {"generateResponse"})
          ELSE requests' = [requests EXCEPT ![r] =
                   [@ EXCEPT !.responseText = g.response,
                             !.ran = @ \cup {"generateResponse"},
                             !.pc = "save"]]
    /\ UNCHANGED <<intents, sentimentModels, conversations, now, directSaves, gen, seedCalls,
                   client, ui>>

\* the arguments processVoiceInput passes to saveMessage
SaveArgs(req) ==
    [userId |-> req.userId, sessionId |-> req.sessionId, userMessage |-> req.text,
     assistantResponse |-> req.responseText, sentiment |-> req.sentiment,
     intent |-> req.intent]

\* the argument validator of saveMessage: assistantResponse is v.string()
ValidSaveArgs(args) == args.assistantResponse # Undefined

\* RunSaveMessage catching the failure of the mutation and returning the result
\* object all the same
RunSaveMessageSwallowing(r, fault) ==
    /\ requests[r].pc = "save"
    /\ IF fault \/ ~ValidSaveArgs(SaveArgs(requests[r]))
       THEN /\ requests' = [requests EXCEPT ![r].pc = "done",
                                            ![r].ran = @ \cup {"saveMessage"}]
            /\ UNCHANGED conversations
       ELSE /\ conversations' = SaveMessage(conversations, SaveArgs(requests[r]), now)
            /\ requests' = [requests EXCEPT ![r].pc = "done",
                                            ![r].ran = @ \cup {"saveMessage"}]
    /\ UNCHANGED <<intents, sentimentModels, now, directSaves, gen, seedCalls, client, ui>>

\* runMutation(saveMessage) and the return of the result object
RunSaveMessage(r, fault) ==
    /\ requests[r].pc = "save"
    /\ IF fault \/ ~ValidSaveArgs(SaveArgs(requests[r]))
       THEN /\ Fail(r, IF fault THEN "saveMessage failed" ELSE "ArgumentValidationError",
                    {"saveMessage"})
            /\ UNCHANGED conversations
       ELSE /\ conversations' = SaveMessage(conversations, SaveArgs(requests[r]), now)
            /\ requests' = [requests EXCEPT ![r].pc = "done",
                                            ![r].ran = @ \cup {"saveMessage"}]
    /\ UNCHANGED <<intents, sentimentModels, now, directSaves, gen, seedCalls, client, ui>>

(***************************************************************************)
(* saveMessage called by a client: it is a public mutation whose userId    *)
(* is an argument.                                                         *)
(***************************************************************************)
DirectResponses == {"text sent by the client as assistantResponse"}
DirectSentiments ==
    {[emotion |-> "happy", confidence |-> <<1, 2>>, valence |-> <<1, 2>>, arousal |-> <<1, 4>>]}
DirectIntents == {[category |-> "music", confidence |-> <<5, 6>>, entities |-> <<>>]}

DirectSaveMessage(args) ==
    /\ Len(directSaves) < MaxDirect
    /\ conversations' = SaveMessage(conversations, args, now)
    /\ directSaves' = Append(directSaves, <<args.userId, args.sessionId>>)
    /\ UNCHANGED <<intents, sentimentModels, now, requests, gen, seedCalls, client, ui>>

Next ==
    \/ InitializeDefaults
    \/ Tick
    \/ \E r \in Requests, text \in Texts :
          \E userId \in CallerOf(r), sessionId \in SessionOf(r) :
             StartProcessVoiceInput(r, userId, text, sessionId)
    \/ \E r \in Requests : RunAnalyzeSentiment(r)
    \/ \E r \in Requests, fault \in BOOLEAN : RunDetectIntent(r, fault)
    \/ \E r \in Requests, fault \in BOOLEAN : LoadConversation(r, fault)
    \/ \E r \in Requests : RunGenerateResponse(r)
    \/ \E r \in Requests, fault \in BOOLEAN : RunSaveMessage(r, fault)

\* the clients call processVoiceInput and initializeDefaults, as the UI does
Spec == Init /\ [][Next]_vars

\* a client also calls saveMessage itself
NextClient ==
    \/ Next
    \/ \E args \in [userId : Users, sessionId : Sessions, userMessage : DirectTexts,
                    assistantResponse : DirectResponses, sentiment : DirectSentiments,
                    intent : DirectIntents] :
          DirectSaveMessage(args)

SpecClient == Init /\ [][NextClient]_vars

(***************************************************************************)
(* generateResponse called alone, over arguments a caller can pass, the    *)
(* configurations it can find and the outcomes of its fetches.             *)
(***************************************************************************)
GenSentiments ==
    {[emotion |-> "neutral", confidence |-> FOne, valence |-> FZero, arousal |-> FZero],
     [emotion |-> "sad", confidence |-> FOne, valence |-> <<-1, 1>>, arousal |-> FZero],
     [emotion |-> "sad", confidence |-> <<1, 2>>, valence |-> <<-3, 10>>, arousal |-> <<1, 5>>],
     [emotion |-> "angry", confidence |-> <<3, 5>>, valence |-> <<-2, 5>>, arousal |-> <<3, 5>>],
     [emotion |-> "happy", confidence |-> FOne, valence |-> FOne, arousal |-> <<1, 2>>]}

GenCategories == {"greeting", "emotion_support", "question", "weather", "unknown"}

GenIntents ==
    {[category |-> c, confidence |-> IF c = "unknown" THEN FZero ELSE <<5, 6>>,
      entities |-> <<>>] : c \in GenCategories}

GenerateResponseCall(userMessage, sentiment, intent, environment, out) ==
    /\ ~gen.called
    /\ gen' = [called |-> TRUE, userMessage |-> userMessage, sentiment |-> sentiment,
               intent |-> intent, environment |-> environment, out |-> out,
               result |-> GenerateResponse(userMessage, sentiment, intent, <<>>,
                                           environment, out)]
    /\ UNCHANGED <<intents, sentimentModels, conversations, now, requests, directSaves,
                   seedCalls, client, ui>>

NextGen ==
    /\ ~gen.called
    /\ \E userMessage \in GenTexts, sentiment \in GenSentiments, intent \in GenIntents,
          environment \in Envs, out \in RemoteOutcomes :
           GenerateResponseCall(userMessage, sentiment, intent, environment, out)

SpecGen == Init /\ [][NextGen]_vars

(***************************************************************************)
(* detectIntent called alone, over rule tables of up to MaxRules rules.    *)
(***************************************************************************)
\* the rules the tables are made of: two rules that tie on some utterances, a
\* rule with a threshold above what one pattern gives, a rule that qualifies at
\* exactly its threshold, and a rule with one pattern and an extractor
RuleChoices ==
    {[category |-> "question", patterns |-> <<"who", "what">>, entities |-> <<>>,
      requiredConfidence |-> <<1, 2>>],
     [category |-> "weather", patterns |-> <<"who", "why">>, entities |-> <<>>,
      requiredConfidence |-> <<1, 2>>],
     [category |-> "greeting", patterns |-> <<"hello", "hi">>, entities |-> <<>>,
      requiredConfidence |-> <<7, 10>>],
     [category |-> "emotion_support", patterns |-> <<"sad", "depressed", "who">>,
      entities |-> <<>>, requiredConfidence |-> <<1, 3>>],
     [category |-> "music", patterns |-> <<"who">>,
      entities |-> << [type |-> "artist", patterns |-> <<"who", "why">>] >>,
      requiredConfidence |-> <<1, 1>>],
     [category |-> "navigation", patterns |-> <<"who", "hello">>,
      entities |-> << [type |-> "place", patterns |-> <<"who">>],
                      [type |-> "time", patterns |-> <<"when", "hi">>] >>,
      requiredConfidence |-> <<1, 2>>]}

\* the contents of the intents table: the seeded rules, or up to MaxRules rules
RuleTables ==
    {defaultIntents} \cup UNION {[1..n -> RuleChoices] : n \in 0..MaxRules}

InitDetect ==
    /\ intents \in RuleTables
    /\ sentimentModels = <<>>
    /\ conversations = <<>>
    /\ now = 1
    /\ requests = [r \in Requests |-> IdleRequest]
    /\ directSaves = <<>>
    /\ gen = NoGen
    /\ seedCalls = 0
    /\ client = NoCall
    /\ ui = NoUi

\* a client runs the detectIntent action: getAllIntents, then the loop
DetectIntentCall(text) ==
    /\ client = NoCall
    /\ client' = [call |-> "detectIntent", text |-> text, result |-> IntentOf(text, intents)]
    /\ UNCHANGED <<intents, sentimentModels, conversations, now, requests, directSaves, gen,
                   seedCalls, ui>>

NextDetect ==
    /\ client = NoCall
    /\ \E text \in DetectTexts : DetectIntentCall(text)

SpecDetect == InitDetect /\ [][NextDetect]_vars

(***************************************************************************)
(* analyzeSentiment called alone, over stored sentiment models.            *)
(***************************************************************************)
\* keyword lists of a model: the seeded ones, short ones where "sad" is a keyword
\* of two emotions, and short ones where "sad" is also a neutral keyword
KeywordChoices ==
    {defaultSentimentModel.emotionKeywords,
     [happy |-> <<"happy", "great">>, sad |-> <<"sad">>, angry |-> <<"mad">>,
      fear |-> <<"worried", "sad">>, surprise |-> <<"wow">>, neutral |-> <<"fine">>],
     [happy |-> <<"happy">>, sad |-> <<"sad", "depressed">>, angry |-> <<>>,
      fear |-> <<"anxious">>, surprise |-> <<"wow", "great">>, neutral |-> <<"sad">>]}

\* intensity modifiers of a model
ModifierChoices ==
    {defaultSentimentModel.intensityModifiers,
     <<>>,
     << [word |-> "slightly", multiplier |-> <<3, 5>>] >>,
     << [word |-> "very", multiplier |-> <<3, 2>>],
        [word |-> "extremely", multiplier |-> <<2, 1>>] >>,
     << [word |-> "extremely", multiplier |-> <<2, 1>>],
        [word |-> "very", multiplier |-> <<3, 1>>],
        [word |-> "somewhat", multiplier |-> <<4, 5>>] >>}

\* the contents of the sentimentModels table: empty, or one model named "default"
ModelTables ==
    {<<>>} \cup
    {<< [name |-> "default", emotionKeywords |-> k, intensityModifiers |-> m] >> :
        k \in KeywordChoices, m \in ModifierChoices}

InitSentiment ==
    /\ intents = <<>>
    /\ sentimentModels \in ModelTables
    /\ conversations = <<>>
    /\ now = 1
    /\ requests = [r \in Requests |-> IdleRequest]
    /\ directSaves = <<>>
    /\ gen = NoGen
    /\ seedCalls = 0
    /\ client = NoCall
    /\ ui = NoUi

\* a client runs the analyzeSentiment action: getSentimentModel, the throw when
\* there is no model, then the scoring; intensityMultiplier is the local variable
\* after the loop over the modifiers
AnalyzeSentimentCall(text) ==
    /\ client = NoCall
    /\ LET m == GetSentimentModel(sentimentModels)
       IN  client' =
              IF m = 0
              THEN [call |-> "analyzeSentiment", text |-> text, threw |-> TRUE,
                    intensityMultiplier |-> FOne, result |-> PendingSentiment]
              ELSE [call |-> "analyzeSentiment", text |-> text, threw |-> FALSE,
                    intensityMultiplier |->
                        IntensityMultiplier(ToLowerCase(Chars[text]), sentimentModels[m]),
                    result |-> SentimentOf(text, sentimentModels[m])]
    /\ UNCHANGED <<intents, sentimentModels, conversations, now, requests, directSaves, gen,
                   seedCalls, ui>>

NextSentiment ==
    /\ client = NoCall
    /\ \E text \in SentimentTexts : AnalyzeSentimentCall(text)

SpecSentiment == InitSentiment /\ [][NextSentiment]_vars

(***************************************************************************)
(* getPerformanceMetrics, a query: it reads the store a sequence of calls  *)
(* has left and changes nothing.                                           *)
(***************************************************************************)
\* what the query returns to a caller without identity
NoMetrics == "<null>"

\* .withIndex("by_user", ...).collect(): the caller's conversations in stored order
OwnedConversations(convs, userId) ==
    SelectSeq(convs, LAMBDA c : c.userId = userId)

\* the condition under which the loop counts a message
CountsAsUserMessage(message) ==
    /\ message.type = "user"
    /\ "sentiment" \in DOMAIN message
    /\ "intent" \in DOMAIN message

\* the messages the two nested loops visit, in order
RECURSIVE VisitedMessages(_, _)
VisitedMessages(owned, i) ==
    IF i > Len(owned) THEN <<>>
    ELSE owned[i].messages \o VisitedMessages(owned, i + 1)

\* sentimentAccuracy or intentAccuracy after the loops: the sum of the
\* confidences of `field` over the counted messages
RECURSIVE AccuracySum(_, _, _)
AccuracySum(ms, field, i) ==
    IF i > Len(ms) THEN FZero
    ELSE FAdd(IF CountsAsUserMessage(ms[i]) THEN ms[i][field].confidence ELSE FZero,
              AccuracySum(ms, field, i + 1))

\* PerformanceMetrics collecting every conversation of the table, not only the
\* caller's
PerformanceMetricsOfAllUsers(convs, userId) ==
    LET Metrics(ms) ==
            LET totalMessages == Cardinality({i \in 1..Len(ms) : CountsAsUserMessage(ms[i])})
                Average(field) ==
                    IF totalMessages > 0
                    THEN FMul(FDivInt(AccuracySum(ms, field, 1), totalMessages), <<100, 1>>)
                    ELSE FZero
            IN  [totalConversations |-> Len(convs),
                 totalMessages |-> totalMessages,
                 avgSentimentAccuracy |-> Average("sentiment"),
                 avgIntentAccuracy |-> Average("intent"),
                 avgResponseLatency |-> 1200]
    IN  WithValue(Metrics, VisitedMessages(convs, 1))

\* the object the handler returns to the caller userId
PerformanceMetrics(convs, userId) ==
    LET Metrics(owned) ==
            LET ms == VisitedMessages(owned, 1)
                totalMessages == Cardinality({i \in 1..Len(ms) : CountsAsUserMessage(ms[i])})
                Average(field) ==
                    IF totalMessages > 0
                    THEN FMul(FDivInt(AccuracySum(ms, field, 1), totalMessages), <<100, 1>>)
                    ELSE FZero
            IN  [totalConversations |-> Len(owned),
                 totalMessages |-> totalMessages,
                 avgSentimentAccuracy |-> Average("sentiment"),
                 avgIntentAccuracy |-> Average("intent"),
                 avgResponseLatency |-> 1200]
    IN  WithValue(Metrics, OwnedConversations(convs, userId))

\* a client runs the query; userId is what getAuthUserId resolves
GetPerformanceMetricsCall(userId) ==
    /\ client = NoCall
    /\ client' = [call |-> "getPerformanceMetrics", userId |-> userId,
                  result |-> IF userId = NoUser THEN NoMetrics
                             ELSE PerformanceMetrics(conversations, userId)]
    /\ UNCHANGED <<intents, sentimentModels, conversations, now, requests, directSaves, gen,
                   seedCalls, ui>>

\* the calls of Spec, and last the query
NextMetrics ==
    /\ client = NoCall
    /\ \/ Next
       \/ \E userId \in Users \cup {NoUser} : GetPerformanceMetricsCall(userId)

SpecMetrics == Init /\ [][NextMetrics]_vars

(***************************************************************************)
(* The VoiceAssistant component.  ui holds the component's state object,   *)
(* recognitionRef.current.finalTranscript, and what the browser and the    *)
(* backend hold for it: the state of the speech recognition engine, the    *)
(* processVoiceInput calls in flight and the speech synthesis queue.  A    *)
(* handler runs against the state of the latest render.                    *)
(*   recognition: idle | starting (start() called, onstart not delivered)  *)
(*     | running | stopping (stop() called) | ending (onerror delivered,   *)
(*     onend not yet)                                                      *)
(***************************************************************************)
MaxInFlight == 2
MaxUtterances == 2

examplePrompts ==
    {"What's the weather like in London?", "I'm feeling a bit down today",
     "Tell me a fun fact about space"}
\* what the recognition engine reports and what the user types
RecognizedTexts == {"hi", " "}
TypedTexts == {"hello", ""}
RecognitionErrors == {"not-allowed", "no-speech"}
\* how a processVoiceInput call ends for the component: a result with a response
\* text, a result whose response is falsy, or a rejection
RequestOutcomes == {"response", "no_response", "error"}

\* !transcript.trim()
IsBlank(text) == \A i \in 1..Len(Chars[text]) : Chars[text][i] = " "

\* JavaScript truthiness of a string or undefined
Truthy(value) == value # Undefined /\ value # ""

\* the component after its first render and its mount effect
MountedUi(hasRecognition, hasSynthesis) ==
    [mounted |-> TRUE,
     isListening |-> FALSE, isProcessing |-> FALSE, isSpeaking |-> FALSE,
     transcript |-> "", permissionStatus |-> "loading",
     hasRecognition |-> hasRecognition, hasSynthesis |-> hasSynthesis,
     finalTranscript |-> Undefined,
     recognition |-> "idle",
     inFlight |-> <<>>,
     queued |-> 0, uttering |-> FALSE]

InitUI ==
    /\ intents = <<>>
    /\ sentimentModels = <<>>
    /\ conversations = <<>>
    /\ now = 1
    /\ requests = [r \in Requests |-> IdleRequest]
    /\ directSaves = <<>>
    /\ gen = NoGen
    /\ seedCalls = 0
    /\ client = NoCall
    /\ ui \in {MountedUi(hasRecognition, hasSynthesis) :
                  hasRecognition \in BOOLEAN, hasSynthesis \in BOOLEAN}

\* the component's step leaves the backend alone
UiOnly ==
    UNCHANGED <<intents, sentimentModels, conversations, now, requests, directSaves, gen,
                seedCalls, client>>

\* checkPermissions resolves, and permission.onchange
CheckPermissions(status) ==
    /\ ui.permissionStatus # status
    /\ ui' = [ui EXCEPT !.permissionStatus = status]
    /\ UiOnly

\* the "Grant Permission" button
RequestMicrophonePermission(granted) ==
    /\ ui.permissionStatus = "prompt"
    /\ ui' = [ui EXCEPT !.permissionStatus = IF granted THEN "granted" ELSE "denied"]
    /\ UiOnly

\* the microphone button is rendered when permission is granted, and is disabled
\* while processing or speaking
MicButtonEnabled ==
    /\ ui.permissionStatus = "granted"
    /\ ~(ui.isProcessing \/ ui.isSpeaking)

\* the button while not listening: rec.start() (a start() on an engine that is
\* not idle throws and changes nothing)
StartListening ==
    /\ MicButtonEnabled
    /\ ~ui.isListening
    /\ ui.hasRecognition /\ ~ui.isProcessing
    /\ ui.recognition = "idle"
    /\ ui' = [ui EXCEPT !.recognition = "starting"]
    /\ UiOnly

\* the button while listening: keeps the transcript on the ref and stops
StopListening ==
    /\ MicButtonEnabled
    /\ ui.hasRecognition /\ ui.isListening
    /\ ui' = [ui EXCEPT !.finalTranscript = ui.transcript,
                        !.recognition = IF @ = "running" THEN "stopping" ELSE @]
    /\ UiOnly

RecOnStart ==
    /\ ui.recognition = "starting"
    /\ ui' = [ui EXCEPT !.recognition = "running", !.isListening = TRUE, !.transcript = ""]
    /\ UiOnly

RecOnResult(transcript) ==
    /\ ui.recognition \in {"running", "stopping"}
    /\ ui' = [ui EXCEPT !.transcript = transcript]
    /\ UiOnly

RecOnError(error) ==
    /\ ui.recognition \in {"starting", "running", "stopping"}
    /\ ui' = [ui EXCEPT !.recognition = "ending", !.isListening = FALSE,
                        !.permissionStatus = IF error = "not-allowed" THEN "denied" ELSE @]
    /\ UiOnly

\* processTranscript up to its await: the state it sets and the call it sends
ProcessTranscript(u, transcript) ==
    IF IsBlank(transcript) THEN u
    ELSE [u EXCEPT !.isProcessing = TRUE, !.transcript = "",
                   !.inFlight = Append(@, transcript)]

\* the model follows at most MaxInFlight calls in flight
CanSend(transcript) == IsBlank(transcript) \/ Len(ui.inFlight) < MaxInFlight

\* the engine ends the session: by itself (continuous is false), after stop(), or
\* after an error
RecOnEnd ==
    /\ ui.recognition \in {"running", "stopping", "ending"}
    /\ LET ended == [ui EXCEPT !.recognition = "idle", !.isListening = FALSE]
       IN  IF Truthy(ui.finalTranscript)
           THEN /\ CanSend(ui.finalTranscript)
                /\ ui' = [ProcessTranscript(ended, ui.finalTranscript)
                            EXCEPT !.finalTranscript = ""]
           ELSE ui' = ended
    /\ UiOnly

\* the text input, which is disabled while processing or speaking
InputEnabled == ~(ui.isProcessing \/ ui.isSpeaking)

TypeText(text) ==
    /\ InputEnabled
    /\ ui.transcript # text
    /\ ui' = [ui EXCEPT !.transcript = text]
    /\ UiOnly

PressEnter ==
    /\ InputEnabled
    /\ CanSend(ui.transcript)
    /\ ui' = ProcessTranscript(ui, ui.transcript)
    /\ UiOnly

ClickSend ==
    /\ ~(~Truthy(ui.transcript) \/ ui.isProcessing \/ ui.isSpeaking)
    /\ CanSend(ui.transcript)
    /\ ui' = ProcessTranscript(ui, ui.transcript)
    /\ UiOnly

ClickExamplePrompt(prompt) ==
    /\ ~(ui.isProcessing \/ ui.isSpeaking \/ ui.permissionStatus # "granted")
    /\ CanSend(prompt)
    /\ ui' = ProcessTranscript(ui, prompt)
    /\ UiOnly

\* the sequence without its k-th element
RemoveAt(seq, k) == SubSeq(seq, 1, k - 1) \o SubSeq(seq, k + 1, Len(seq))

\* the awaited processVoiceInput call number k settles: the rest of processTranscript
RequestSettles(k, outcome) ==
    /\ k \in 1..Len(ui.inFlight)
    /\ LET speaks == outcome = "response" /\ ui.hasSynthesis
       IN  /\ speaks => ui.queued < MaxUtterances
           /\ ui' = [ui EXCEPT !.inFlight = RemoveAt(@, k),
                               !.isProcessing = FALSE,
                               !.queued = IF speaks THEN @ + 1 ELSE @]
    /\ UiOnly

\* the synthesis engine starts the utterance at the head of its queue
UtteranceOnStart ==
    /\ ui.queued > 0 /\ ~ui.uttering
    /\ ui' = [ui EXCEPT !.uttering = TRUE, !.isSpeaking = TRUE]
    /\ UiOnly

UtteranceOnEnd ==
    /\ ui.uttering
    /\ ui' = [ui EXCEPT !.uttering = FALSE, !.queued = @ - 1, !.isSpeaking = FALSE]
    /\ UiOnly

NextUI ==
    \/ \E status \in {"granted", "prompt", "denied"} : CheckPermissions(status)
    \/ \E granted \in BOOLEAN : RequestMicrophonePermission(granted)
    \/ StartListening
    \/ StopListening
    \/ RecOnStart
    \/ \E transcript \in RecognizedTexts : RecOnResult(transcript)
    \/ \E error \in RecognitionErrors : RecOnError(error)
    \/ RecOnEnd
    \/ \E text \in TypedTexts : TypeText(text)
    \/ PressEnter
    \/ ClickSend
    \/ \E prompt \in examplePrompts : ClickExamplePrompt(prompt)
    \/ \E k \in 1..MaxInFlight, outcome \in RequestOutcomes : RequestSettles(k, outcome)
    \/ UtteranceOnStart
    \/ UtteranceOnEnd

SpecUI == InitUI /\ [][NextUI]_vars

(***************************************************************************)
(* getConversationHistory called by a client.  The result of the query is  *)
(* a tuple: empty for null, holding the document when one is returned.     *)
(***************************************************************************)
\* GetConversationHistory looking the session up without the caller's id
GetConversationHistoryBySessionOnly(convs, userId, sessionId) ==
    IF userId = NoUser THEN <<>>
    ELSE LET S == {i \in 1..Len(convs) : convs[i].sessionId = sessionId}
         IN  IF S = {} THEN <<>> ELSE << convs[CHOOSE i \in S : \A j \in S : i <= j] >>

\* the handler: userId is what getAuthUserId resolves
GetConversationHistory(convs, userId, sessionId) ==
    IF userId = NoUser THEN <<>>
    ELSE LET c == FirstConversation(convs, userId, sessionId)
         IN  IF c = 0 THEN <<>> ELSE << convs[c] >>

GetConversationHistoryCall(userId, sessionId) ==
    /\ client = NoCall
    /\ client' = [call |-> "getConversationHistory", userId |-> userId,
                  sessionId |-> sessionId,
                  result |-> GetConversationHistory(conversations, userId, sessionId)]
    /\ UNCHANGED <<intents, sentimentModels, conversations, now, requests, directSaves, gen,
                   seedCalls, ui>>

\* the calls of Spec, and last the query
NextHistory ==
    /\ client = NoCall
    /\ \/ Next
       \/ \E userId \in Users \cup {NoUser}, sessionId \in Sessions :
             GetConversationHistoryCall(userId, sessionId)

SpecHistory == Init /\ [][NextHistory]_vars

(***************************************************************************)
(* getConversation and saveMessage called by a client.  Both are exported, *)
(* neither calls getAuthUserId: caller is the identity the client is       *)
(* authenticated as, userId is the argument it passes.  The result of the  *)
(* query is a tuple: empty for null, holding the document otherwise.       *)
(***************************************************************************)
SurfaceSessions == {"s1"}

GetConversationCall(caller, userId, sessionId) ==
    /\ client = NoCall
    /\ client' = [call |-> "getConversation", caller |-> caller, userId |-> userId,
                  sessionId |-> sessionId,
                  result |-> LET c == GetConversation(conversations, userId, sessionId)
                             IN  IF c = 0 THEN <<>> ELSE << conversations[c] >>]
    /\ UNCHANGED <<intents, sentimentModels, conversations, now, requests, directSaves, gen,
                   seedCalls, ui>>

SaveMessageCall(caller, args) ==
    /\ client = NoCall
    /\ conversations' = SaveMessage(conversations, args, now)
    /\ client' = [call |-> "saveMessage", caller |-> caller, userId |-> args.userId,
                  sessionId |-> args.sessionId]
    /\ UNCHANGED <<intents, sentimentModels, now, requests, directSaves, gen, seedCalls, ui>>

\* the calls of Spec, and last one call of a client to the query or the mutation
NextSurface ==
    /\ client = NoCall
    /\ \/ Next
       \/ \E caller \in Users \cup {NoUser}, userId \in Users, sessionId \in SurfaceSessions :
             GetConversationCall(caller, userId, sessionId)
       \/ \E caller \in Users \cup {NoUser} :
             \E args \in [userId : Users, sessionId : SurfaceSessions,
                           userMessage : DirectTexts, assistantResponse : DirectResponses,
                           sentiment : DirectSentiments, intent : DirectIntents] :
                SaveMessageCall(caller, args)

SpecSurface == Init /\ [][NextSurface]_vars

(***************************************************************************)
(* Properties of the store.                                                *)
(***************************************************************************)
\* C1: every processVoiceInput call that completes successfully appends exactly
\* two messages to the conversation of (caller, sessionId), first a user message
\* carrying the text, then an assistant message carrying the reply, and the
\* assistant message's timestamp is the user message's timestamp + 1; the
\* messages stored before stay, and no other conversation changes.
C1_CompletedCallAppendsPair ==
    [][\A r \in Requests :
          (requests[r].pc # "done" /\ requests'[r].pc = "done") =>
             LET u == requests[r].userId
                 s == requests[r].sessionId
                 c == FirstConversation(conversations, u, s)
                 d == FirstConversation(conversations', u, s)
                 old == IF c = 0 THEN <<>> ELSE conversations[c].messages
                 n == Len(old)
             IN  /\ d # 0
                 /\ Len(conversations'[d].messages) = n + 2
                 /\ SubSeq(conversations'[d].messages, 1, n) = old
                 /\ conversations'[d].messages[n + 1].type = "user"
                 /\ conversations'[d].messages[n + 1].content = requests[r].text
                 /\ conversations'[d].messages[n + 2].type = "assistant"
                 /\ conversations'[d].messages[n + 2].content = requests[r].responseText
                 /\ conversations'[d].messages[n + 2].timestamp
                       = conversations'[d].messages[n + 1].timestamp + 1
                 /\ \A i \in 1..Len(conversations) :
                       (conversations[i].userId # u \/ conversations[i].sessionId # s)
                          => conversations'[i] = conversations[i]
                 /\ Len(conversations') = IF c = 0 THEN Len(conversations) + 1
                                          ELSE Len(conversations)]_vars

\* a call has completed on a conversation that already held a pair, and its own
\* pair is the last two messages
C1_Witness ==
    \E r \in Requests, i \in 1..Len(conversations) :
        /\ requests[r].pc = "done"
        /\ conversations[i].userId = requests[r].userId
        /\ conversations[i].sessionId = requests[r].sessionId
        /\ Len(conversations[i].messages) = 4
        /\ conversations[i].messages[3].content = requests[r].text
        /\ conversations[i].messages[4].content = requests[r].responseText
        /\ conversations[i].messages[4].timestamp = conversations[i].messages[3].timestamp + 1

\* C2: in every reachable state every conversation's message sequence has even
\* length and alternates user, assistant, user, assistant, ..., whatever the
\* interleaving of processVoiceInput and saveMessage calls.
C2_MessagesAlternate ==
    \A i \in 1..Len(conversations) :
        /\ Len(conversations[i].messages) % 2 = 0
        /\ \A k \in 1..Len(conversations[i].messages) :
              conversations[i].messages[k].type = IF k % 2 = 1 THEN "user" ELSE "assistant"

\* a conversation holds the pair of a saveMessage a client called itself and the
\* pair of a completed processVoiceInput call
C2_Witness ==
    \E i \in 1..Len(conversations), r \in Requests, k \in 1..Len(directSaves) :
        /\ Len(conversations[i].messages) >= 4
        /\ requests[r].pc = "done"
        /\ requests[r].userId = conversations[i].userId
        /\ requests[r].sessionId = conversations[i].sessionId
        /\ directSaves[k] = <<conversations[i].userId, conversations[i].sessionId>>

\* C3: the append of the pair is one read-modify-write on the conversation: for
\* any interleaving of N processVoiceInput calls on the same (userId, sessionId)
\* that completed, no pair is overwritten, so the conversation holds 2N messages
\* more than at the start (it started empty) and the user message and the
\* assistant message of each call are adjacent.
C3_NoPairLost ==
    \A u \in Users, s \in Sessions :
        LET c == FirstConversation(conversations, u, s)
            ms == IF c = 0 THEN <<>> ELSE conversations[c].messages
            done == {r \in Requests : /\ requests[r].pc = "done"
                                      /\ requests[r].userId = u
                                      /\ requests[r].sessionId = s}
        IN  /\ Len(ms) = 2 * Cardinality(done)
            /\ \A r \in done :
                  \E k \in 1..(Len(ms) - 1) :
                      /\ ms[k].type = "user"
                      /\ ms[k].content = requests[r].text
                      /\ ms[k + 1].type = "assistant"
                      /\ ms[k + 1].content = requests[r].responseText
                      /\ ms[k + 1].timestamp = ms[k].timestamp + 1

\* two calls on the same session both loaded the conversation before either
\* saved (each saw an empty history), both completed, and the four messages
\* are there
C3_Witness ==
    \E r, q \in Requests :
        /\ r # q
        /\ requests[r].pc = "done" /\ requests[q].pc = "done"
        /\ requests[r].userId = requests[q].userId
        /\ requests[r].sessionId = requests[q].sessionId
        /\ requests[r].conversationHistory = <<>>
        /\ requests[q].conversationHistory = <<>>
        /\ \E i \in 1..Len(conversations) :
              /\ conversations[i].userId = requests[r].userId
              /\ conversations[i].sessionId = requests[r].sessionId
              /\ Len(conversations[i].messages) = 4

\* C4: in every reachable state of the store at most one conversation exists per
\* (userId, sessionId), also when two processVoiceInput calls for a session
\* without a conversation run concurrently and both reach saveMessage.
C4_OneConversationPerKey ==
    \A i, j \in 1..Len(conversations) :
        (/\ conversations[i].userId = conversations[j].userId
         /\ conversations[i].sessionId = conversations[j].sessionId) => i = j

\* two calls for the same session both found no conversation when they loaded
\* it, both have run saveMessage, and the session has a conversation
C4_Witness ==
    \E r, q \in Requests :
        /\ r # q
        /\ requests[r].pc = "done" /\ requests[q].pc = "done"
        /\ requests[r].userId = requests[q].userId
        /\ requests[r].sessionId = requests[q].sessionId
        /\ requests[r].conversationHistory = <<>>
        /\ requests[q].conversationHistory = <<>>
        /\ Cardinality({i \in 1..Len(conversations) :
                           /\ conversations[i].userId = requests[r].userId
                           /\ conversations[i].sessionId = requests[r].sessionId}) = 1

\* C5: when saveMessage is applied with intent category "unknown" to an existing
\* conversation, context.conversationTopic stays what it was; with any other
\* category it becomes that category; a conversation created with intent
\* "unknown" has no topic.  (The category of a save is the one stored in the
\* user message it appended.)
C5_TopicRetainedOnUnknown ==
    [][\A i \in 1..Len(conversations') :
          LET ms == conversations'[i].messages
              category == ms[Len(ms) - 1].intent.category
              topic == conversations'[i].context.conversationTopic
          IN  IF i <= Len(conversations)
              THEN conversations'[i] # conversations[i] =>
                      topic = IF category = "unknown"
                              THEN conversations[i].context.conversationTopic
                              ELSE category
              ELSE topic = IF category = "unknown" THEN Absent ELSE category]_vars

\* a conversation whose topic was set by a first save and kept by a second save
\* with intent "unknown"
C5_Witness ==
    \E i \in 1..Len(conversations) :
        /\ Len(conversations[i].messages) = 4
        /\ conversations[i].messages[1].intent.category = "emotion_support"
        /\ conversations[i].messages[3].intent.category = "unknown"
        /\ conversations[i].context.lastIntent = "unknown"
        /\ conversations[i].context.conversationTopic = "emotion_support"

(***************************************************************************)
(* Properties of generateResponse.                                         *)
(***************************************************************************)
\* C6: generateResponse never fails toward its caller: for every combination of
\* provider keys and every outcome of each remote call, in Q&A mode and in
\* general mode, it returns a textual reply: a text one of the services sent or
\* a line of the local fallback table.
C6_AlwaysTextualReply ==
    gen.called =>
        /\ ~gen.result.threw
        /\ gen.result.response \in RemoteTexts \cup FallbackLines

\* C7: in the context-aware reply path the primary provider is tried before the
\* secondary, an unconfigured provider is skipped, and the local fallback line
\* is chosen only when each provider is either unconfigured or has been
\* attempted: when the primary is configured and fails in any way and the
\* secondary is configured, the secondary is attempted before the fallback.
C7_FallbackOnlyAfterEachProvider ==
    gen.called =>
        LET t == gen.result.trace
            events == {t[k] : k \in 1..Len(t)}
        IN  /\ ~gen.environment.OPENROUTER_API_KEY => "fetch_primary" \notin events
            /\ ~gen.environment.CONVEX_OPENAI_API_KEY => "fetch_secondary" \notin events
            /\ \A j, k \in 1..Len(t) :
                  (t[j] = "fetch_primary" /\ t[k] = "fetch_secondary") => j < k
            /\ "fallback" \in events =>
                  /\ gen.environment.OPENROUTER_API_KEY => "fetch_primary" \in events
                  /\ gen.environment.CONVEX_OPENAI_API_KEY => "fetch_secondary" \in events

\* C8: Q&A mode is entered exactly when the intent category is "question" or the
\* lower-cased text contains one of what/how/when/where/why/who.  In Q&A mode
\* answerQuestion is called before any provider of the general path; when it
\* returns, its result is the reply and nothing else is called; when it fails
\* (a missing primary key included) generateResponse does not throw and goes on
\* with the general path.
C8_QuestionMode ==
    gen.called =>
        LET t == gen.result.trace
            events == {t[k] : k \in 1..Len(t)}
            questionMode == \/ gen.intent.category = "question"
                            \/ HasQuestionWord(gen.userMessage)
            keyed == gen.environment.OPENROUTER_API_KEY
            returned == keyed /\ gen.out.qa \in {"ok_text", "ok_nocontent"}
            prefix == IF keyed THEN 2 ELSE 1
        IN  /\ "answerQuestion" \in events <=> questionMode
            /\ "fetch_qa" \in events <=> (questionMode /\ keyed)
            /\ questionMode =>
                  /\ t[1] = "answerQuestion"
                  /\ keyed => t[2] = "fetch_qa"
                  /\ returned =>
                        /\ t = <<"answerQuestion", "fetch_qa">>
                        /\ gen.out.qa = "ok_text" => gen.result.response = QaAnswer
                  /\ ~returned =>
                        /\ ~gen.result.threw
                        /\ Len(t) > prefix
                        /\ t[prefix + 1] \in {"fetch_primary", "fetch_secondary", "fallback"}
                        /\ gen.result.response # QaAnswer

\* the text alone selects Q&A mode (the intent is not "question"), the primary
\* key is missing so answerQuestion fails, and the general path has answered
C8_Witness ==
    /\ gen.called
    /\ gen.intent.category = "unknown"
    /\ gen.userMessage = "Who are you"
    /\ ~gen.environment.OPENROUTER_API_KEY
    /\ gen.result.trace = <<"answerQuestion", "fetch_secondary">>
    /\ gen.result.response = SecondaryReply

(***************************************************************************)
(* Properties of the failures of processVoiceInput.                        *)
(***************************************************************************)
\* C9: if no caller identity is resolvable, processVoiceInput fails with the
\* unauthenticated error and nothing downstream runs: no analysis is started, no
\* remote call is made, no conversation is read, created or modified; a call
\* that goes past the check has an identity.
C9_UnauthenticatedRunsNothing ==
    [][\A r \in Requests :
          /\ (requests[r].pc = "idle" /\ requests'[r].pc # "idle") =>
                \/ /\ requests'[r].pc = "analysis"
                   /\ requests'[r].userId \in Users
                \/ /\ requests'[r].pc = "failed"
                   /\ requests'[r].error = "User not authenticated"
                   /\ requests'[r].ran = {}
                   /\ requests'[r].responseText = Undefined
                   /\ UNCHANGED <<intents, sentimentModels, conversations>>
          /\ requests'[r].pc \notin {"idle", "failed"} => requests'[r].userId \in Users
          /\ requests[r].error = "User not authenticated" => requests'[r] = requests[r]]_vars

\* a call has failed with the unauthenticated error, having run nothing, while
\* another call has completed
C9_Witness ==
    \E r, q \in Requests :
        /\ requests[r].pc = "failed"
        /\ requests[r].error = "User not authenticated"
        /\ requests[r].ran = {}
        /\ requests[q].pc = "done"

\* C10: if stage 1, 2 or 3 of processVoiceInput fails (no identity, no sentiment
\* model stored so that analyzeSentiment throws, detectIntent fails, the load of
\* the conversation fails), the call fails with that error, no reply is
\* generated and the store is left as it was; analyzeSentiment without a stored
\* model always fails the call; a failed call does nothing afterwards.
C10_EarlyFailureLeavesStore ==
    [][\A r \in Requests :
          /\ (/\ requests[r].pc # "failed"
              /\ requests'[r].pc = "failed"
              /\ requests'[r].error \in {"User not authenticated", "Sentiment model not found",
                                         "detectIntent failed", "getConversation failed"}) =>
                /\ conversations' = conversations
                /\ requests'[r].responseText = Undefined
                /\ requests'[r].ran \cap {"generateResponse", "saveMessage"} = {}
          /\ (/\ "analyzeSentiment" \notin requests[r].ran
              /\ "analyzeSentiment" \in requests'[r].ran
              /\ GetSentimentModel(sentimentModels) = 0) =>
                /\ requests'[r].pc = "failed"
                /\ requests'[r].error = "Sentiment model not found"
          /\ requests'[r].pc \in {"generate", "save", "done"} =>
                {"analyzeSentiment", "detectIntent", "getConversation"} \subseteq requests'[r].ran
          /\ requests[r].pc = "failed" => requests'[r] = requests[r]]_vars

\* one call failed because no sentiment model was stored, another because the
\* load of its conversation failed
C10_Witness ==
    \E r, q \in Requests :
        /\ requests[r].pc = "failed"
        /\ requests[r].error = "Sentiment model not found"
        /\ requests[q].pc = "failed"
        /\ requests[q].error = "getConversation failed"

\* C11: if saveMessage (stage 5) fails, processVoiceInput surfaces that error and
\* returns no result object; whenever the caller has a result object, the
\* user/assistant pair of the call is in the stored conversation and the
\* assistant message's content is the returned response.
C11_ResultOnlyAfterPairStored ==
    [][\A r \in Requests :
          /\ ("saveMessage" \notin requests[r].ran /\ "saveMessage" \in requests'[r].ran) =>
                \/ /\ requests'[r].pc = "failed"
                   /\ requests'[r].error \in {"saveMessage failed", "ArgumentValidationError"}
                   /\ requests'[r].responseText = Undefined
                   /\ conversations' = conversations
                \/ /\ requests'[r].pc = "done"
                   /\ conversations' # conversations
          /\ requests'[r].pc = "done" =>
                \E i \in 1..Len(conversations') :
                    /\ conversations'[i].userId = requests'[r].userId
                    /\ conversations'[i].sessionId = requests'[r].sessionId
                    /\ \E k \in 1..(Len(conversations'[i].messages) - 1) :
                          /\ conversations'[i].messages[k].type = "user"
                          /\ conversations'[i].messages[k].content = requests'[r].text
                          /\ conversations'[i].messages[k + 1].type = "assistant"
                          /\ conversations'[i].messages[k + 1].content
                                = requests'[r].responseText]_vars

\* the mutation of one call failed and the call surfaced the error, while
\* another call returned its result
C11_Witness ==
    \E r, q \in Requests :
        /\ requests[r].pc = "failed"
        /\ requests[r].error = "saveMessage failed"
        /\ "saveMessage" \in requests[r].ran
        /\ requests[q].pc = "done"

\* C12: initializeDefaults is idempotent: once it has run on the empty store,
\* every further call, whatever runs in between, leaves the store as it is, so
\* there is exactly one seeded set of the six intent rules and exactly one
\* sentiment model named "default".
C12_InitializeDefaultsIdempotent ==
    [][seedCalls' # seedCalls =>
          /\ seedCalls >= 1 => (intents' = intents /\ sentimentModels' = sentimentModels)
          /\ intents' = defaultIntents
          /\ Len(intents') = 6
          /\ Len(sentimentModels') = 1
          /\ Cardinality({i \in 1..Len(sentimentModels') :
                             sentimentModels'[i].name = "default"}) = 1]_vars

\* initializeDefaults has run twice and a call has been processed with the
\* seeded tables
C12_Witness ==
    /\ seedCalls = 2
    /\ Len(intents) = 6
    /\ Len(sentimentModels) = 1
    /\ \E r \in Requests : requests[r].pc = "done"

(***************************************************************************)
(* Properties of detectIntent.                                             *)
(***************************************************************************)
\* C13: for every text and every rule table, if detectIntent returns a category
\* other than "unknown", the returned confidence is (matched patterns / total
\* patterns) of a rule with that category and is at least that rule's
\* requiredConfidence.
C13_ConfidenceClearsThreshold ==
    (client.call = "detectIntent" /\ client.result.category # "unknown") =>
        LET text == ToLowerCase(Chars[client.text])
            Matched(i) ==
                Cardinality({k \in 1..Len(intents[i].patterns) :
                                Includes(text, ToLowerCase(Chars[intents[i].patterns[k]]))})
        IN  \E i \in 1..Len(intents) :
                /\ intents[i].category = client.result.category
                /\ client.result.confidence = Frac(Matched(i), Len(intents[i].patterns))
                /\ FLeq(intents[i].requiredConfidence, client.result.confidence)

\* a rule matched one pattern of three and its threshold is 1/3: it is returned
\* with confidence 1/3
C13_Witness ==
    /\ client.call = "detectIntent"
    /\ client.text = "Who are you"
    /\ client.result.category = "emotion_support"
    /\ client.result.confidence = <<1, 3>>

\* C14: for every text and rule table, detectIntent returns the qualifying rule
\* (at least one match, confidence >= its own threshold) of maximum confidence,
\* and among qualifying rules of that same confidence the earliest in the
\* stored order.
C14_BestQualifyingRuleEarliestOnTie ==
    client.call = "detectIntent" =>
        LET text == ToLowerCase(Chars[client.text])
            Matched(i) ==
                Cardinality({k \in 1..Len(intents[i].patterns) :
                                Includes(text, ToLowerCase(Chars[intents[i].patterns[k]]))})
            Conf(i) == Frac(Matched(i), Len(intents[i].patterns))
            qualifying == {i \in 1..Len(intents) :
                              Matched(i) > 0 /\ FLeq(intents[i].requiredConfidence, Conf(i))}
        IN  qualifying # {} =>
               \E i \in qualifying :
                   /\ \A j \in qualifying : FLeq(Conf(j), Conf(i))
                   /\ \A j \in qualifying : Conf(j) = Conf(i) => i <= j
                   /\ client.result.category = intents[i].category
                   /\ client.result.confidence = Conf(i)

\* two rules match every one of their patterns: the first one stored is returned
C14_Witness ==
    /\ client.call = "detectIntent"
    /\ client.text = "who what when where why"
    /\ Len(intents) = 2
    /\ intents[1].category = "weather"
    /\ intents[2].category = "question"
    /\ client.result.category = "weather"
    /\ client.result.confidence = <<1, 1>>

\* C15: if no rule clears its own threshold for the text, detectIntent returns
\* category "unknown", confidence 0 and no entities; with the seeded rules
\* "hello" matches one greeting pattern of six (1/6 < 0.7) and yields "unknown".
C15_UnknownWhenNoRuleQualifies ==
    client.call = "detectIntent" =>
        LET text == ToLowerCase(Chars[client.text])
            Matched(i) ==
                Cardinality({k \in 1..Len(intents[i].patterns) :
                                Includes(text, ToLowerCase(Chars[intents[i].patterns[k]]))})
            qualifying == {i \in 1..Len(intents) :
                              /\ Matched(i) > 0
                              /\ FLeq(intents[i].requiredConfidence,
                                      Frac(Matched(i), Len(intents[i].patterns)))}
        IN  /\ qualifying = {} =>
                /\ client.result.category = "unknown"
                /\ client.result.confidence = <<0, 1>>
                /\ client.result.entities = <<>>
            /\ (intents = defaultIntents /\ client.text = "hello") =>
                /\ Matched(1) = 1
                /\ client.result.category = "unknown"

\* "hello" has been classified with the seeded rules
C15_Witness ==
    /\ client.call = "detectIntent"
    /\ intents = defaultIntents
    /\ client.text = "hello"
    /\ client.result = [category |-> "unknown", confidence |-> <<0, 1>>, entities |-> <<>>]

(***************************************************************************)
(* Properties of analyzeSentiment.                                         *)
(***************************************************************************)
\* C16: for every text that contains no keyword of any of the six emotion lists,
\* analyzeSentiment returns emotion "neutral" with confidence 1, valence 0 and
\* arousal 0, whatever intensity modifiers the text contains.
C16_NeutralWhenNoKeyword ==
    (client.call = "analyzeSentiment" /\ ~client.threw) =>
        LET text == ToLowerCase(Chars[client.text])
            keywords == sentimentModels[1].emotionKeywords
            noKeyword == \A e \in DOMAIN keywords :
                            \A k \in 1..Len(keywords[e]) : ~Includes(text, Chars[keywords[e][k]])
        IN  noKeyword =>
               client.result = [emotion |-> "neutral", confidence |-> <<1, 1>>,
                                valence |-> <<0, 1>>, arousal |-> <<0, 1>>]

\* a text with two modifier words of the seeded model and no keyword has been
\* read as neutral
C16_Witness ==
    /\ client.call = "analyzeSentiment"
    /\ sentimentModels = <<defaultSentimentModel>>
    /\ client.text = "very slightly"
    /\ client.intensityMultiplier = <<3, 2>>
    /\ client.result.emotion = "neutral"
    /\ client.result.confidence = <<1, 1>>

\* C17: for every text and every emotion model, the reading analyzeSentiment
\* returns has confidence in [0, 1], valence in [-1, 1] and arousal in [0, 1],
\* also when the intensity multiplier makes a normalised score exceed 1.
C17_ReadingWithinRanges ==
    (client.call = "analyzeSentiment" /\ ~client.threw) =>
        /\ FLeq(<<0, 1>>, client.result.confidence)
        /\ FLeq(client.result.confidence, <<1, 1>>)
        /\ FLeq(<<-1, 1>>, client.result.valence)
        /\ FLeq(client.result.valence, <<1, 1>>)
        /\ FLeq(<<0, 1>>, client.result.arousal)
        /\ FLeq(client.result.arousal, <<1, 1>>)

\* "very sad" with the seeded model: the only match is scored 1.5, and the
\* reading is clamped to confidence 1 and valence -1
C17_Witness ==
    /\ client.call = "analyzeSentiment"
    /\ sentimentModels = <<defaultSentimentModel>>
    /\ client.text = "very sad"
    /\ client.intensityMultiplier = <<3, 2>>
    /\ client.result.emotion = "sad"
    /\ client.result.confidence = <<1, 1>>
    /\ client.result.valence = <<-1, 1>>

\* C18: when keyword matches exist, analyzeSentiment returns as dominant emotion
\* the label of maximum normalised score, and on an exact tie the label that
\* comes first in the order happy, sad, angry, fear, surprise, neutral (one
\* happy keyword and one sad keyword give "happy").
C18_FirstLabelWinsTies ==
    (client.call = "analyzeSentiment" /\ ~client.threw) =>
        LET text == ToLowerCase(Chars[client.text])
            keywords == sentimentModels[1].emotionKeywords
            Hits(e) == Cardinality({k \in 1..Len(keywords[e]) :
                                       Includes(text, Chars[keywords[e][k]])})
            labels == 1..Len(EmotionLabels)
        IN  (\E i \in labels : Hits(EmotionLabels[i]) > 0) =>
               \E i \in labels :
                   /\ \A j \in labels : Hits(EmotionLabels[j]) <= Hits(EmotionLabels[i])
                   /\ \A j \in labels :
                         Hits(EmotionLabels[j]) = Hits(EmotionLabels[i]) => i <= j
                   /\ client.result.emotion = EmotionLabels[i]

\* C19: the intensity multiplier analyzeSentiment uses is the maximum multiplier
\* among the modifier words that occur in the text, and 1 only when none occurs:
\* a text whose only modifier is "slightly" (0.6) or "somewhat" (0.8) is scored
\* with 0.6 or 0.8.
C19_MultiplierIsMaxOfMatchedModifiers ==
    (client.call = "analyzeSentiment" /\ ~client.threw) =>
        LET text == ToLowerCase(Chars[client.text])
            modifiers == sentimentModels[1].intensityModifiers
            matched == {i \in 1..Len(modifiers) : Includes(text, Chars[modifiers[i].word])}
        IN  IF matched = {}
            THEN client.intensityMultiplier = <<1, 1>>
            ELSE \E i \in matched :
                    /\ \A j \in matched : FLeq(modifiers[j].multiplier, modifiers[i].multiplier)
                    /\ client.intensityMultiplier = modifiers[i].multiplier

(***************************************************************************)
(* Properties of getPerformanceMetrics.                                    *)
(***************************************************************************)
\* C20: getPerformanceMetrics for an authenticated caller returns
\* totalConversations equal to the number of conversations the caller owns, and
\* when the caller owns no conversation (or none of its conversations holds a
\* user message with sentiment and intent) it returns totalMessages 0,
\* avgSentimentAccuracy 0 and avgIntentAccuracy 0.
C20_MetricsOfEmptyHistory ==
    (client.call = "getPerformanceMetrics" /\ client.userId \in Users) =>
        LET owned == {i \in 1..Len(conversations) : conversations[i].userId = client.userId}
            counted == {<<i, k>> \in owned \X (1..(2 * (MaxReq + MaxDirect))) :
                           /\ k <= Len(conversations[i].messages)
                           /\ conversations[i].messages[k].type = "user"
                           /\ "sentiment" \in DOMAIN conversations[i].messages[k]
                           /\ "intent" \in DOMAIN conversations[i].messages[k]}
        IN  /\ client.result.totalConversations = Cardinality(owned)
            /\ client.result.totalMessages = Cardinality(counted)
            /\ counted = {} =>
                  /\ client.result.totalMessages = 0
                  /\ client.result.avgSentimentAccuracy = <<0, 1>>
                  /\ client.result.avgIntentAccuracy = <<0, 1>>

\* a caller who owns no conversation asks for the metrics while another user's
\* conversation is stored
C20_Witness ==
    /\ client.call = "getPerformanceMetrics"
    /\ client.userId = "u2"
    /\ Len(conversations) > 0
    /\ \A i \in 1..Len(conversations) : conversations[i].userId = "u1"
    /\ client.result.totalConversations = 0
    /\ client.result.totalMessages = 0
    /\ client.result.avgSentimentAccuracy = <<0, 1>>
    /\ client.result.avgIntentAccuracy = <<0, 1>>

(***************************************************************************)
(* Further properties of generateResponse.                                 *)
(***************************************************************************)
\* C21: when every remote attempt fails, the local fallback sentence is a
\* function of (intent category, emotion, valence): "greeting" gives the
\* sad-greeting line iff the emotion is "sad" and the normal greeting otherwise;
\* "emotion_support" and "question" give their own line; any other category
\* gives the supportive default iff valence < -0.3 and the neutral default
\* otherwise.  A text in Q&A mode through a question word only (intent not
\* "question") never gets the "question" line.
C21_FallbackTable ==
    (gen.called /\ gen.result.trace # <<>>
                /\ gen.result.trace[Len(gen.result.trace)] = "fallback") =>
        LET category == gen.intent.category
            valence == gen.sentiment.valence
            belowThreshold == valence[1] * 10 < -3 * valence[2]
        IN  /\ category = "greeting" /\ gen.sentiment.emotion = "sad"
                => gen.result.response = GreetingSad
            /\ category = "greeting" /\ gen.sentiment.emotion # "sad"
                => gen.result.response = GreetingDefault
            /\ category = "emotion_support" => gen.result.response = EmotionSupportLine
            /\ category = "question" => gen.result.response = QuestionLine
            /\ category \notin {"greeting", "emotion_support", "question"} /\ belowThreshold
                => gen.result.response = SupportiveDefault
            /\ category \notin {"greeting", "emotion_support", "question"} /\ ~belowThreshold
                => gen.result.response = NeutralDefault
            /\ category # "question" => gen.result.response # QuestionLine

\* a text with a question word and intent "unknown" went through answerQuestion
\* and both providers, all failing, and got the neutral default at valence -0.3
C21_Witness ==
    /\ gen.called
    /\ gen.userMessage = "Who are you"
    /\ gen.intent.category = "unknown"
    /\ gen.sentiment.valence = <<-3, 10>>
    /\ gen.result.trace
          = <<"answerQuestion", "fetch_qa", "fetch_primary", "fetch_secondary", "fallback">>
    /\ gen.result.response = NeutralDefault

(***************************************************************************)
(* Further properties of the store.                                        *)
(***************************************************************************)
\* C22: after every successful saveMessage (create or update) the
\* conversation's context.userMood is the emotion of the turn just saved and
\* context.lastIntent its intent category ("unknown" included); so in every
\* reachable state they are the emotion and the category carried by the last
\* user message of the sequence.
C22_ContextFollowsLastTurn ==
    \A i \in 1..Len(conversations) :
        LET ms == conversations[i].messages
        IN  /\ Len(ms) >= 2
            /\ ms[Len(ms) - 1].type = "user"
            /\ conversations[i].context.userMood = ms[Len(ms) - 1].sentiment.emotion
            /\ conversations[i].context.lastIntent = ms[Len(ms) - 1].intent.category

\* a conversation whose second turn changed both the mood and the intent
C22_Witness ==
    \E i \in 1..Len(conversations) :
        /\ Len(conversations[i].messages) = 4
        /\ conversations[i].messages[1].sentiment.emotion = "fear"
        /\ conversations[i].messages[1].intent.category = "emotion_support"
        /\ conversations[i].messages[3].sentiment.emotion = "neutral"
        /\ conversations[i].messages[3].intent.category = "unknown"
        /\ conversations[i].context.userMood = "neutral"
        /\ conversations[i].context.lastIntent = "unknown"

\* C23: the message sequence of a conversation is append-only: for every
\* operation and every interleaving, the sequence before the operation is a
\* prefix of the sequence after it, and no conversation disappears.
C23_MessagesAppendOnly ==
    [][/\ Len(conversations') >= Len(conversations)
       /\ \A i \in 1..Len(conversations) :
             /\ Len(conversations'[i].messages) >= Len(conversations[i].messages)
             /\ SubSeq(conversations'[i].messages, 1, Len(conversations[i].messages))
                   = conversations[i].messages]_vars

\* a second turn was saved by a call that had read the first pair, and the first
\* pair is still at the head of the sequence
C23_Witness ==
    \E i \in 1..Len(conversations), r \in Requests :
        /\ requests[r].pc = "done"
        /\ requests[r].userId = conversations[i].userId
        /\ requests[r].sessionId = conversations[i].sessionId
        /\ Len(requests[r].conversationHistory) = 2
        /\ Len(conversations[i].messages) = 4
        /\ conversations[i].messages[1].content = requests[r].conversationHistory[1].content
        /\ conversations[i].messages[2].content = requests[r].conversationHistory[2].content
        /\ conversations[i].messages[3].content = requests[r].text

\* C24: a conversation is created with preferences {responseStyle "empathetic",
\* verbosity "detailed"}, and no operation changes the preferences, the userId
\* or the sessionId of an existing conversation; so every reachable
\* conversation has those preferences.
C24_PreferencesAndKeyFixed ==
    [][/\ \A i \in 1..Len(conversations') :
             conversations'[i].context.preferences
                = [responseStyle |-> "empathetic", verbosity |-> "detailed"]
       /\ \A i \in 1..Len(conversations) :
             /\ i <= Len(conversations')
             /\ conversations'[i].userId = conversations[i].userId
             /\ conversations'[i].sessionId = conversations[i].sessionId
             /\ conversations'[i].context.preferences
                   = conversations[i].context.preferences]_vars

\* two conversations, one of them updated after its creation, both with the
\* default preferences
C24_Witness ==
    /\ Len(conversations) = 2
    /\ \E i \in 1..2 : Len(conversations[i].messages) = 2
    /\ \A i \in 1..2 :
          /\ conversations[i].context.preferences.responseStyle = "empathetic"
          /\ conversations[i].context.preferences.verbosity = "detailed"
    /\ \E r \in Requests :
          /\ requests[r].pc = "done"
          /\ Len(requests[r].conversationHistory) = 0

(***************************************************************************)
(* Further properties of detectIntent.                                     *)
(***************************************************************************)
\* C25: the entities returned by detectIntent are exactly those of the returned
\* rule: for each entity extractor of the winning rule, in order, one entity
\* {type, value = the pattern text, confidence 0.8} per extractor pattern found
\* in the lower-cased text; entities of a rule accepted earlier and displaced
\* later are not in the result, and "unknown" has no entities.
C25_EntitiesOfReturnedRuleOnly ==
    client.call = "detectIntent" =>
        LET text == ToLowerCase(Chars[client.text])
            conf(i) == Frac(PatternMatches(text, intents[i]), Len(intents[i].patterns))
            admissible == {i \in 1..Len(intents) :
                              /\ PatternMatches(text, intents[i]) > 0
                              /\ FLeq(intents[i].requiredConfidence, conf(i))}
            best == {i \in admissible : \A k \in admissible : FLeq(conf(k), conf(i))}
            found(rule) ==
                {s \in UNION {{<<i, j>> : j \in 1..Len(rule.entities[i].patterns)} :
                                 i \in 1..Len(rule.entities)} :
                    Includes(text, ToLowerCase(Chars[rule.entities[s[1]].patterns[s[2]]]))}
            rank(rule, s) ==
                Cardinality({q \in found(rule) :
                                q[1] < s[1] \/ (q[1] = s[1] /\ q[2] <= s[2])})
            expected(rule) ==
                [k \in 1..Cardinality(found(rule)) |->
                    LET s == CHOOSE q \in found(rule) : rank(rule, q) = k
                    IN  [type |-> rule.entities[s[1]].type,
                         value |-> rule.entities[s[1]].patterns[s[2]],
                         confidence |-> <<4, 5>>]]
        IN  IF best = {}
            THEN client.result.category = "unknown" /\ client.result.entities = <<>>
            ELSE LET winner == CHOOSE i \in best : \A k \in best : i <= k
                 IN  /\ client.result.category = intents[winner].category
                     /\ client.result.entities = expected(intents[winner])

\* "navigation" was accepted with a "place" entity and then displaced by "music",
\* whose two "artist" entities are the whole result
C25_Witness ==
    /\ client.call = "detectIntent"
    /\ client.text = "who what when where why"
    /\ Len(intents) = 2
    /\ intents[1].category = "navigation"
    /\ intents[2].category = "music"
    /\ client.result.category = "music"
    /\ client.result.entities =
          << [type |-> "artist", value |-> "who", confidence |-> <<4, 5>>],
             [type |-> "artist", value |-> "why", confidence |-> <<4, 5>>] >>

(***************************************************************************)
(* Further properties of getPerformanceMetrics and getConversationHistory. *)
(***************************************************************************)
\* C26: getPerformanceMetrics for a caller reports totalMessages equal to the
\* number of user messages carrying both readings across that caller's
\* conversations only, which equals the number of that caller's successfully
\* completed processVoiceInput calls; conversations of other users never
\* contribute.
C26_TotalMessagesCountsCompletedCalls ==
    \A userId \in Users :
        LET counted ==
                {s \in UNION {{<<i, k>> : k \in 1..Len(conversations[i].messages)} :
                                 i \in 1..Len(conversations)} :
                    /\ conversations[s[1]].userId = userId
                    /\ conversations[s[1]].messages[s[2]].type = "user"
                    /\ "sentiment" \in DOMAIN conversations[s[1]].messages[s[2]]
                    /\ "intent" \in DOMAIN conversations[s[1]].messages[s[2]]}
            completed == {r \in Requests : /\ requests[r].pc = "done"
                                           /\ requests[r].userId = userId}
            totalMessages == PerformanceMetrics(conversations, userId).totalMessages
        IN  /\ totalMessages = Cardinality(counted)
            /\ totalMessages = Cardinality(completed)

\* C27: getConversationHistory(sessionId) returns null when the caller is
\* unauthenticated or has no conversation for that session, and otherwise the
\* conversation whose userId is the caller's and whose sessionId is the
\* argument; it never returns a conversation of another user, even one with the
\* same sessionId, and it never modifies the store.
C27_HistoryOfCallerOnly ==
    /\ [](client.call = "getConversationHistory" =>
            LET own == {i \in 1..Len(conversations) :
                           /\ conversations[i].userId = client.userId
                           /\ conversations[i].sessionId = client.sessionId}
            IN  /\ (client.userId = NoUser \/ own = {}) => client.result = <<>>
                /\ (client.userId # NoUser /\ own # {}) =>
                      /\ Len(client.result) = 1
                      /\ \E i \in own : client.result[1] = conversations[i]
                      /\ client.result[1].userId = client.userId
                      /\ client.result[1].sessionId = client.sessionId)
    /\ [][client' # client =>
             /\ client'.call = "getConversationHistory"
             /\ UNCHANGED <<intents, sentimentModels, conversations>>]_vars

\* u2 asks for session s1, which u1 used first and u2 after: u2 gets its own
\* conversation, stored second
C27_Witness ==
    /\ client.call = "getConversationHistory"
    /\ client.userId = "u2"
    /\ client.sessionId = "s1"
    /\ Len(conversations) = 2
    /\ conversations[1].userId = "u1" /\ conversations[1].sessionId = "s1"
    /\ conversations[2].userId = "u2" /\ conversations[2].sessionId = "s1"
    /\ client.result = << conversations[2] >>

(***************************************************************************)
(* Properties of the VoiceAssistant component.                             *)
(***************************************************************************)
\* C28: whenever a speech-recognition session ends (onend) after a non-empty
\* transcript was recognized, that transcript is automatically submitted to
\* processVoiceInput, whether recognition ended by the user pressing stop or by
\* itself.
C28_EndOfRecognitionSubmits ==
    [][(/\ ui.recognition \in {"running", "stopping"}
        /\ ui'.recognition = "idle"
        /\ ~IsBlank(ui.transcript))
          => /\ Len(ui'.inFlight) = Len(ui.inFlight) + 1
             /\ ui'.inFlight[Len(ui'.inFlight)] = ui.transcript]_vars

(***************************************************************************)
(* Message ids and timestamps.                                             *)
(***************************************************************************)
\* C29: message ids are unique within a conversation in every reachable state,
\* including when two saveMessage calls for the same session observe the same
\* millisecond of the clock.
C29_MessageIdsUnique ==
    \A i \in 1..Len(conversations) :
        \A j, k \in 1..Len(conversations[i].messages) :
            j # k => conversations[i].messages[j].id # conversations[i].messages[k].id

\* C30: along the message sequence of a conversation, timestamps are strictly
\* increasing from each message to the next, across pairs as well as inside a
\* pair, for a non-decreasing clock with millisecond resolution (including two
\* turns saved in the same or in consecutive milliseconds).
C30_TimestampsStrictlyIncreasing ==
    \A i \in 1..Len(conversations) :
        \A j \in 1..(Len(conversations[i].messages) - 1) :
            conversations[i].messages[j].timestamp
                < conversations[i].messages[j + 1].timestamp

(***************************************************************************)
(* Isolation of the users across the exported operations.                  *)
(***************************************************************************)
\* C31: a client authenticated as user A can neither read nor modify a
\* conversation whose userId is another user B: every exported operation that
\* touches conversations takes the user id from the caller's identity, not from
\* an argument.  A step that returns a conversation returns one of the caller,
\* and a step that creates or changes a conversation is a call of its owner.
C31_NoAccessAcrossUsers ==
    [][/\ (client' # client /\ client'.call = "getConversation") =>
             \A k \in 1..Len(client'.result) : client'.result[k].userId = client'.caller
       /\ \A i \in 1..Len(conversations') :
             (i > Len(conversations) \/ conversations'[i] # conversations[i]) =>
                \/ /\ client' # client
                   /\ client'.call = "saveMessage"
                   /\ client'.caller = conversations'[i].userId
                \/ \E r \in Requests :
                      /\ requests[r].pc = "save"
                      /\ requests'[r].pc = "done"
                      /\ requests[r].userId = conversations'[i].userId]_vars

(***************************************************************************)
(* The requests of one VoiceAssistant component.                           *)
(***************************************************************************)
\* C32: a single VoiceAssistant instance never has two processVoiceInput
\* requests in flight at the same time, under any interleaving of user events
\* and callback events; and isProcessing is true exactly while a request is in
\* flight (it is reset to false after both success and failure).
C32_OneRequestInFlight ==
    ui.mounted =>
        /\ Len(ui.inFlight) <= 1
        /\ ui.isProcessing <=> Len(ui.inFlight) > 0

====
